---- MODULE Spec2Model ----
(***************************************************************************)
(* A model of the mod acquisition pipeline of the launcher                 *)
(* (app_src/mod_launcher.py): the link extraction functions, the verified  *)
(* downloader, the archive unpacker and ensure_mod_payload.                *)
(*                                                                         *)
(* Text (URLs, file names, anchor text, digests) is a sequence of tokens;  *)
(* a token stands for a run of characters that the code never splits       *)
(* ("/", "mods", ".zip", one hex digit, ...).  Substring search, prefix    *)
(* and suffix tests, length and case folding are computed on the tokens.   *)
(***************************************************************************)
EXTENDS Integers, Sequences, FiniteSets, TLC

VARIABLES
  \* ---- link extraction, applied as pure functions (SpecLinks) ----
  lkBase,      \* the URL the page was fetched from
  lkPage,      \* the fetched page: [text, anchors]
  lkOut,       \* what the function applied last returned
  \* ---- the pipeline (Spec) ----
  nt,          \* os.name == "nt": which rename semantics the platform has
  remote,      \* the remote site: pages and the file body, as far as fetched
  fs,          \* the mods directory: file name -> content, for existing files
  pc,          \* position of the run inside ensure_mod_payload
  force,       \* force_redownload of the current run
  loc,         \* the locals of ensure_mod_payload / download_with_optional_md5
  run,         \* number of the current run (1, 2, ...)
  steps,       \* the pipeline steps entered by the current run, in order
  http,        \* HTTP requests issued by the current run
  gets,        \* body downloads started by the current run
  fs0,         \* the mods directory when the current run started
  outcome,     \* how the current run ended: [kind, step, why]
  prev,        \* summary of the previous run
  \* ---- the IWAD selector, applied as a pure function (SpecWad) ----
  wdNt,        \* the path flavour is Windows: glob patterns ignore case
  wdDir,       \* the directory searched: a set of [name, depth] entries
  wdOut,       \* what _pick_best_local_wad returned
  \* ---- the unpacker, applied as a pure function (SpecUnpack) ----
  uzFs,        \* the directory of the archive: file name -> content
  uzPath,      \* the path handed to maybe_extract_and_pick_payload
  uzOut,       \* what it returned
  \* ---- main() and the setup window of app_src/main.py (SpecGui) ----
  guiHeadless, \* --auto or MS_AUTO=1 (or no Tk): no window
  guiMain,     \* position of the main thread inside main()
  guiWin,      \* the Tk root window: "none", "open", "destroyed"
  guiPage,     \* what the window shows: "preflight" or "progress"
  guiGo,       \* proceed["go"]
  guiWorkers,  \* the worker threads started, in order: [st, fin]
  guiLog,      \* the workers whose error was written to the log box
  guiClosedBy, \* who destroyed the window: "none", "user", "program"
  guiBox,      \* setup_box (or setup) holds the paths to launch
  guiFailed,   \* some run of setup_all has raised
  guiRet,      \* what show_preflight_and_run returned
  guiLaunched, \* launch_gzdoom was called with the paths
  \* ---- the entrypoint (entrypoint/entrypoint.py, SpecEntry) ----
  epGithub,    \* how GitHub answers: [mode, tag, size]
  epLauncher,  \* the launcher file: [exists, size]
  epVersion,   \* the version file: [state, tag]
  epStatFails, \* launcher_path.stat() raises OSError
  epPc,        \* position inside main()
  epInfo,      \* latest_info: [some, tag, size]
  epNeeds,     \* needs_update
  epDownloads, \* downloads of the launcher started
  epRan,       \* run_launcher started the launcher
  epExit,      \* exit status of the process, -1 while it runs
  epLauncher0, \* the launcher file when the entrypoint started
  epVersion0,  \* the version file when the entrypoint started
  epRun,       \* number of the current run of the entrypoint
  epFull,      \* the tags whose asset was received in full, at its declared size
  \* ---- ensure_iwad of app_src/main.py (SpecIwad) ----
  iwPrefer,    \* prefer_path: "none", "missing" or "exists"
  iwForce,     \* force_update
  iwDir,       \* the iwads directory: a set of [name, depth, unz] entries
  iwArc,       \* the members of the Freedoom archive on the server
  iwZip,       \* the archive file of an earlier download lies in the iwads directory
  iwUnzDirs,   \* the extraction directory holds subdirectories
  iwPc,        \* position inside ensure_iwad
  iwHttp,      \* HTTP requests issued by the call
  iwOut,       \* how the call ended: [kind, path, why]
  iwDir0,      \* the iwads directory when the call started
  \* ---- the deploy scripts (SpecDeploy) ----
  dpManifest,  \* .dist_repo/manifest.json: [state, launcher, hasBuilds, builds]
  dpRun,       \* the running script: [script, pc, version, cur, new, tag, url]
  dpCount,     \* runs started so far
  dpExit,      \* exit status of the current run, -1 while it runs
  dpLog,       \* what the current run did, in order
  dpReleases,  \* the tags of the GitHub releases created
  dpUploaded,  \* the URLs returned by successful asset uploads
  dpWritten,   \* the URLs the publishing scripts wrote into the manifest
  dpManifest0, \* the manifest when the current run started
  \* ---- setup_all of app_src/main.py (SpecSetup) ----
  suArgs,      \* the command line: [gzdoom, iwad, update_iwad, skip_mod_update, ...]
  suEnv,       \* what the run finds: [gzLocal, iwLocal, mods, netOk]
  suPc,        \* the stage setup_all is at
  suUpdates,   \* the calls of update(stage, ...), in order
  suOut        \* how setup_all ended: [kind, keys, error]

varsLk == <<lkBase, lkPage, lkOut>>
varsPipe == <<nt, remote, fs, pc, force, loc, run, steps, http, gets, fs0, outcome, prev>>
varsWad == <<wdNt, wdDir, wdOut>>
varsUnpack == <<uzFs, uzPath, uzOut>>
varsGui == <<guiHeadless, guiMain, guiWin, guiPage, guiGo, guiWorkers, guiLog,
             guiClosedBy, guiBox, guiFailed, guiRet, guiLaunched>>
varsEntry == <<epGithub, epLauncher, epVersion, epStatFails, epPc, epInfo, epNeeds,
               epDownloads, epRan, epExit, epLauncher0, epVersion0, epRun, epFull>>
varsIwad == <<iwPrefer, iwForce, iwDir, iwArc, iwZip, iwUnzDirs, iwPc, iwHttp, iwOut, iwDir0>>
varsDeploy == <<dpManifest, dpRun, dpCount, dpExit, dpLog, dpReleases, dpUploaded, dpWritten, dpManifest0>>
varsSetup == <<suArgs, suEnv, suPc, suUpdates, suOut>>
vars == <<varsLk, varsPipe, varsWad, varsUnpack, varsGui, varsEntry, varsIwad, varsDeploy, varsSetup>>

\* What the actions of one specification leave alone.
othersLk == <<varsPipe, varsWad, varsUnpack, varsGui, varsEntry, varsIwad, varsDeploy, varsSetup>>
othersPipe == <<varsLk, varsWad, varsUnpack, varsGui, varsEntry, varsIwad, varsDeploy, varsSetup>>
othersWad == <<varsLk, varsPipe, varsUnpack, varsGui, varsEntry, varsIwad, varsDeploy, varsSetup>>
othersUnpack == <<varsLk, varsPipe, varsWad, varsGui, varsEntry, varsIwad, varsDeploy, varsSetup>>
othersGui == <<varsLk, varsPipe, varsWad, varsUnpack, varsEntry, varsIwad, varsDeploy, varsSetup>>
othersEntry == <<varsLk, varsPipe, varsWad, varsUnpack, varsGui, varsIwad, varsDeploy, varsSetup>>
othersIwad == <<varsLk, varsPipe, varsWad, varsUnpack, varsGui, varsEntry, varsDeploy, varsSetup>>
othersDeploy == <<varsLk, varsPipe, varsWad, varsUnpack, varsGui, varsEntry, varsIwad, varsSetup>>
othersSetup == <<varsLk, varsPipe, varsWad, varsUnpack, varsGui, varsEntry, varsIwad, varsDeploy>>

(***************************************************************************)
(* Bounds of the model.                                                    *)
(***************************************************************************)
MaxAnchors == 3
MaxRuns == 2

(***************************************************************************)
(* Text as token sequences.                                                *)
(***************************************************************************)
None == <<>>

Hosts == {"https://www.moddb.com", "https://mirror.example"}

\* len(): the number of characters a token stands for.
TokLen(t) ==
  CASE t = "https://www.moddb.com" -> 21
    [] t = "https://mirror.example" -> 22
    [] t = "maximum-security" -> 16
    [] t \in {"downloads", "Downloads"} -> 9
    [] t \in {"freedoom2", "freedoom1"} -> 9
    [] t \in {"upload", "freedm"} -> 6
    [] t \in {"doom2", "DOOM2", "Doom2"} -> 5
    [] t \in {"files", "Files", "start", "games"} -> 5
    [] t \in {"mods", ".zip", ".ZIP", ".pk3", ".PK3", ".pk7", ".wad", ".WAD", ".txt"} -> 4
    [] t \in {"%20", "foo", "bar", "baz", "mod"} -> 3
    [] t \in {"f1", "f2", "v1", ".."} -> 2
    [] OTHER -> 1

RECURSIVE StrLen(_)
StrLen(s) == IF s = <<>> THEN 0 ELSE TokLen(Head(s)) + StrLen(Tail(s))

\* str.lower() on one token.
LowerTok(t) ==
  CASE t = "Downloads" -> "downloads"
    [] t = "Files" -> "files"
    [] t = ".ZIP" -> ".zip"
    [] t = ".PK3" -> ".pk3"
    [] t = ".WAD" -> ".wad"
    [] t \in {"DOOM2", "Doom2"} -> "doom2"
    [] t = "A" -> "a"
    [] t = "B" -> "b"
    [] OTHER -> t

Lower(s) == [i \in 1..Len(s) |-> LowerTok(s[i])]

\* str.strip(): leading and trailing white space removed.
RECURSIVE LStrip(_)
LStrip(s) == IF s # <<>> /\ Head(s) = " " THEN LStrip(Tail(s)) ELSE s

RECURSIVE RStripTok(_, _)
RStripTok(s, t) ==
  IF s # <<>> /\ s[Len(s)] = t THEN RStripTok(SubSeq(s, 1, Len(s) - 1), t) ELSE s

Strip(s) == RStripTok(LStrip(s), " ")

\* sub in s
Contains(s, sub) ==
  \E i \in 1..(Len(s) - Len(sub) + 1) : SubSeq(s, i, i + Len(sub) - 1) = sub

EndsWith(s, sub) ==
  Len(s) >= Len(sub) /\ SubSeq(s, Len(s) - Len(sub) + 1, Len(s)) = sub

\* The largest index of token t in s, 0 when there is none.
LastIndexOf(s, t) ==
  IF \E i \in 1..Len(s) : s[i] = t
    THEN CHOOSE i \in 1..Len(s) : s[i] = t /\ \A j \in (i + 1)..Len(s) : s[j] # t
    ELSE 0

\* urllib.parse.urljoin(base, href) for an absolute base and an href that is
\* empty, absolute, root-relative or relative to the base's last segment.
UrlJoin(base, href) ==
  IF href = <<>> THEN base
  ELSE IF href[1] \in Hosts THEN href
  ELSE IF href[1] = "/" THEN <<base[1]>> \o href
  ELSE IF LastIndexOf(base, "/") = 0 THEN base \o <<"/">> \o href
  ELSE SubSeq(base, 1, LastIndexOf(base, "/")) \o href

\* urllib.parse.unquote on one token, and on a string.
UnquoteTok(t) == IF t = "%20" THEN " " ELSE t

Unquote(s) == [i \in 1..Len(s) |-> UnquoteTok(s[i])]

\* url.split("/")[-1]
LastSegment(url) == SubSeq(url, LastIndexOf(url, "/") + 1, Len(url))

(***************************************************************************)
(* find_downloads_page                                                     *)
(***************************************************************************)
\* The test of lines 27-30 on one anchor.
IsDownloadsAnchor(a, mod_root_url) ==
  LET href == Strip(a.href)
      text == Lower(Strip(a.text))
      absurl == UrlJoin(mod_root_url, href)
  IN \/ Contains(absurl, <<"/", "mods", "/">>) /\ Contains(absurl, <<"/", "downloads">>)
     \/ text \in {<<"downloads">>, <<"files">>} /\ Contains(absurl, <<"/", "mods", "/">>)

RECURSIVE DownloadsCandidates(_, _)
DownloadsCandidates(anchors, mod_root_url) ==
  IF anchors = <<>> THEN <<>>
  ELSE (IF IsDownloadsAnchor(Head(anchors), mod_root_url)
          THEN <<UrlJoin(mod_root_url, Strip(Head(anchors).href))>>
          ELSE <<>>)
       \o DownloadsCandidates(Tail(anchors), mod_root_url)

\* list.sort(key=len): a stable sort, by insertion from the right.
RECURSIVE InsertByLen(_, _)
InsertByLen(x, sorted) ==
  IF sorted = <<>> THEN <<x>>
  ELSE IF StrLen(x) <= StrLen(Head(sorted)) THEN <<x>> \o sorted
  ELSE <<Head(sorted)>> \o InsertByLen(x, Tail(sorted))

RECURSIVE SortByLen(_)
SortByLen(s) == IF s = <<>> THEN <<>> ELSE InsertByLen(Head(s), SortByLen(Tail(s)))

\* Mutant: the first matching anchor is returned, the list is not sorted.
FindDownloadsPageFirst(page, mod_root_url) ==
  LET candidates == DownloadsCandidates(page.anchors, mod_root_url)
  IN IF candidates # <<>>
       THEN [url |-> candidates[1], via |-> "candidate"]
       ELSE [url |-> RStripTok(mod_root_url, "/") \o <<"/", "downloads">>,
             via |-> "fallback"]

\* Mutant: the trailing slashes of the root URL are kept.
FindDownloadsPageNoRstrip(page, mod_root_url) ==
  LET candidates == DownloadsCandidates(page.anchors, mod_root_url)
  IN IF candidates # <<>>
       THEN [url |-> SortByLen(candidates)[1], via |-> "candidate"]
       ELSE [url |-> mod_root_url \o <<"/", "downloads">>, via |-> "fallback"]

\* The value returned, and the return statement that produced it.
FindDownloadsPage(page, mod_root_url) ==
  LET candidates == DownloadsCandidates(page.anchors, mod_root_url)
  IN IF candidates # <<>>
       THEN [url |-> SortByLen(candidates)[1], via |-> "candidate"]
       ELSE [url |-> RStripTok(mod_root_url, "/") \o <<"/", "downloads">>,
             via |-> "fallback"]

(***************************************************************************)
(* newest_filepage                                                         *)
(***************************************************************************)
NoSlash(s) == \A i \in 1..Len(s) : s[i] # "/"

\* re.search(r"/mods/[^/]+/downloads/[^/]+/?$", href)
IsFileEntryUrl(href) ==
  \E i \in 1..Len(href) : \E j \in (i + 4)..Len(href) : \E k \in (j + 3)..Len(href) :
     /\ SubSeq(href, i, i + 2) = <<"/", "mods", "/">>
     /\ NoSlash(SubSeq(href, i + 3, j - 1))
     /\ SubSeq(href, j, j + 2) = <<"/", "downloads", "/">>
     /\ NoSlash(SubSeq(href, j + 3, k))
     /\ \/ k = Len(href)
        \/ k = Len(href) - 1 /\ href[Len(href)] = "/"

IsFileLink(href) == IsFileEntryUrl(href) /\ ~Contains(href, <<"upload">>)

RECURSIVE FileLinks(_, _)
FileLinks(anchors, downloads_url) ==
  IF anchors = <<>> THEN <<>>
  ELSE (IF IsFileLink(UrlJoin(downloads_url, Head(anchors).href))
          THEN <<UrlJoin(downloads_url, Head(anchors).href)>>
          ELSE <<>>)
       \o FileLinks(Tail(anchors), downloads_url)

\* Lines 47-51: the links in first-seen order, each once.
RECURSIVE Ordered(_, _)
Ordered(file_links, seen) ==
  IF file_links = <<>> THEN <<>>
  ELSE IF Head(file_links) \in seen THEN Ordered(Tail(file_links), seen)
  ELSE <<Head(file_links)>> \o Ordered(Tail(file_links), seen \cup {Head(file_links)})

\* Mutant: the last file link is taken instead of the first.
NewestFilepageLast(page, downloads_url) ==
  LET file_links == FileLinks(page.anchors, downloads_url)
  IN IF file_links = <<>>
       THEN [ok |-> FALSE, url |-> None]
       ELSE [ok |-> TRUE, url |-> Ordered(file_links, {})[Len(Ordered(file_links, {}))]]

NewestFilepage(page, downloads_url) ==
  LET file_links == FileLinks(page.anchors, downloads_url)
  IN IF file_links = <<>>
       THEN [ok |-> FALSE, url |-> None]
       ELSE [ok |-> TRUE, url |-> Ordered(file_links, {})[1]]

(***************************************************************************)
(* parse_filepage_for_md5_and_start                                        *)
(***************************************************************************)
HexToks == {"0", "1", "2", "3", "9", "a", "b", "A", "B"}

\* [a-fA-F0-9]{32}: a word of hex digits (a digest has DigestLen digits here).
IsHexWord(w) == w # <<>> /\ \A i \in 1..Len(w) : w[i] \in HexToks

\* The first match of r"MD5 Hash\s*([a-fA-F0-9]{32})" in the visible text.
Md5Of(text) ==
  LET hits == {i \in 1..(Len(text) - 1) : text[i] = <<"MD5 Hash">> /\ IsHexWord(text[i + 1])}
  IN IF hits = {} THEN None
     ELSE Lower(text[(CHOOSE i \in hits : \A j \in hits : i <= j) + 1])

\* The first match of r"Filename\s+([^\s]+)" in the visible text.
SuggestedOf(text) ==
  LET hits == {i \in 1..(Len(text) - 1) : text[i] = <<"Filename">>}
  IN IF hits = {} THEN None
     ELSE text[(CHOOSE i \in hits : \A j \in hits : i <= j) + 1]

RECURSIVE FirstStartLink(_, _)
FirstStartLink(anchors, filepage_url) ==
  IF anchors = <<>> THEN None
  ELSE IF Contains(UrlJoin(filepage_url, Head(anchors).href),
                   <<"/", "downloads", "/", "start", "/">>)
    THEN UrlJoin(filepage_url, Head(anchors).href)
  ELSE FirstStartLink(Tail(anchors), filepage_url)

\* Mutant: without a start link the file page itself is used.
ParseFilepageLenient(page, filepage_url) ==
  LET start_url == FirstStartLink(page.anchors, filepage_url)
  IN [ok |-> TRUE, start_url |-> IF start_url = None THEN filepage_url ELSE start_url,
      md5 |-> Md5Of(page.text), suggested |-> SuggestedOf(page.text)]

ParseFilepage(page, filepage_url) ==
  LET start_url == FirstStartLink(page.anchors, filepage_url)
  IN IF start_url = None
       THEN [ok |-> FALSE, start_url |-> None, md5 |-> None, suggested |-> None]
       ELSE [ok |-> TRUE, start_url |-> start_url,
             md5 |-> Md5Of(page.text), suggested |-> SuggestedOf(page.text)]

(***************************************************************************)
(* startpage_to_direct_url                                                 *)
(***************************************************************************)
StartpageToDirectUrl(page, start_url) ==
  IF page.anchors = <<>>
    THEN [ok |-> FALSE, url |-> None]
    ELSE [ok |-> TRUE, url |-> UrlJoin(start_url, page.anchors[1].href)]

(***************************************************************************)
(* The link extraction functions applied to bounded pages (SpecLinks).     *)
(***************************************************************************)
\* DEFAULT_MOD_URL
DefaultModUrl == <<"https://www.moddb.com", "/", "mods", "/", "maximum-security">>

ModPath == <<"/", "mods", "/", "maximum-security">>

Anchor(href, text) == [href |-> href, text |-> text]

AnchorPool ==
  { Anchor(ModPath \o <<"/", "downloads">>, <<"Downloads">>),
    Anchor(ModPath \o <<"/", "x">>, <<" ", "Files", " ">>),
    Anchor(<<"/", "games">>, <<"Files">>),
    Anchor(ModPath \o <<"/", "downloads", "/", "f1">>, <<"f1">>),
    Anchor(ModPath \o <<"/", "downloads", "/", "f2", "/">>, <<"f2">>),
    Anchor(ModPath \o <<"/", "downloads", "/", "upload">>, <<"x">>),
    Anchor(ModPath \o <<"/", "downloads", "/", "f1", "/", "x">>, <<"x">>),
    Anchor(<<"f2">>, <<"x">>),
    Anchor(<<"/", "downloads", "/", "start", "/", "f1">>, <<"x">>) }

RECURSIVE SeqsUpTo(_, _)
SeqsUpTo(S, n) ==
  IF n = 0 THEN {<<>>}
  ELSE SeqsUpTo(S, n - 1) \cup {Append(s, x) : s \in {t \in SeqsUpTo(S, n - 1) : Len(t) = n - 1}, x \in S}

\* The digest the model's MD5 gives the body <<1, 2>>, and fragments of visible text.
TextPool ==
  { <<>>,
    << <<"MD5 Hash">>, <<"2", "a", "b">> >>,
    << <<"MD5 Hash">>, <<"x">>, <<"MD5 Hash">>, <<"2", "A", "B">>, <<"Filename">>, <<"mod", ".zip">> >>,
    << <<"Filename">>, <<"mod", ".zip">>, <<"Filename">>, <<"foo", ".txt">> >>,
    << <<"x">>, <<"Filename">> >> }

LkBases ==
  { DefaultModUrl,
    DefaultModUrl \o <<"/", "/">>,
    DefaultModUrl \o <<"/", "downloads">>,
    DefaultModUrl \o <<"/", "downloads", "/">> }

NoOut == [op |-> "none", ok |-> FALSE, url |-> None, via |-> "none",
          md5 |-> None, suggested |-> None]

EmptyPage == [text |-> <<>>, anchors |-> <<>>]

InitLk ==
  /\ lkBase \in LkBases
  /\ lkPage \in [text : {<<>>}, anchors : SeqsUpTo(AnchorPool, MaxAnchors)]
                \cup [text : TextPool, anchors : SeqsUpTo(AnchorPool, 1)]
  /\ lkOut = NoOut

IdleLk ==
  /\ lkBase = DefaultModUrl
  /\ lkPage = EmptyPage
  /\ lkOut = NoOut

LkFind ==
  /\ lkOut.op = "none"
  /\ lkOut' = [NoOut EXCEPT !.op = "find", !.ok = TRUE,
                            !.url = FindDownloadsPage(lkPage, lkBase).url,
                            !.via = FindDownloadsPage(lkPage, lkBase).via]
  /\ UNCHANGED <<lkBase, lkPage>>
  /\ UNCHANGED othersLk

LkNewest ==
  /\ lkOut.op = "none"
  /\ lkOut' = [NoOut EXCEPT !.op = "newest",
                            !.ok = NewestFilepage(lkPage, lkBase).ok,
                            !.url = NewestFilepage(lkPage, lkBase).url]
  /\ UNCHANGED <<lkBase, lkPage>>
  /\ UNCHANGED othersLk

LkParse ==
  /\ lkOut.op = "none"
  /\ lkOut' = [NoOut EXCEPT !.op = "parse",
                            !.ok = ParseFilepage(lkPage, lkBase).ok,
                            !.url = ParseFilepage(lkPage, lkBase).start_url,
                            !.md5 = ParseFilepage(lkPage, lkBase).md5,
                            !.suggested = ParseFilepage(lkPage, lkBase).suggested]
  /\ UNCHANGED <<lkBase, lkPage>>
  /\ UNCHANGED othersLk

LkStart ==
  /\ lkOut.op = "none"
  /\ lkOut' = [NoOut EXCEPT !.op = "start",
                            !.ok = StartpageToDirectUrl(lkPage, lkBase).ok,
                            !.url = StartpageToDirectUrl(lkPage, lkBase).url]
  /\ UNCHANGED <<lkBase, lkPage>>
  /\ UNCHANGED othersLk

NextLk == LkFind \/ LkNewest \/ LkParse \/ LkStart

(***************************************************************************)
(* Files, digests and archives.                                            *)
(*                                                                         *)
(* A file's content is the sequence of the chunks written to it.  A chunk  *)
(* is a number; 0 is the empty chunk a stream may deliver, which is never  *)
(* written.  hashlib.md5 is taken to be collision free: the digest spells  *)
(* out the content in hex digits.  A content is a ZIP archive when it ends *)
(* with the chunk 9 (the end-of-central-directory record); every chunk     *)
(* before it is one entry.                                                 *)
(***************************************************************************)
HexOfChunk(c) ==
  CASE c = 1 -> "a"
    [] c = 2 -> "b"
    [] c = 3 -> "3"
    [] c = 9 -> "9"
    [] OTHER -> "0"

HexOfLen(n) ==
  CASE n = 0 -> "0"
    [] n = 1 -> "1"
    [] n = 2 -> "2"
    [] OTHER -> "3"

\* hashlib.md5(content).hexdigest(): always lower case.
Md5(content) == <<HexOfLen(Len(content))>> \o [i \in 1..Len(content) |-> HexOfChunk(content[i])]

Exists(f, p) == p \in DOMAIN f

WriteFile(f, p, data) == [q \in DOMAIN f \cup {p} |-> IF q = p THEN data ELSE f[q]]

RemoveFile(f, p) == [q \in DOMAIN f \ {p} |-> f[q]]

ExtToks == {".zip", ".ZIP", ".pk3", ".PK3", ".pk7", ".wad", ".WAD", ".txt", ".part"}

\* Path.suffix
Suffix(name) ==
  IF Len(name) >= 2 /\ name[Len(name)] \in ExtToks THEN <<name[Len(name)]>> ELSE <<>>

\* zipfile.ZipFile(path): the archive can be opened.
IsZip(content) == content # <<>> /\ content[Len(content)] = 9

EntryName(c) ==
  CASE c = 1 -> <<"foo", ".txt">>
    [] c = 2 -> <<"baz", ".PK3">>
    [] c = 3 -> <<"bar", ".wad">>
    [] c = 5 -> <<"bar", ".pk7">>
    [] c = 6 -> <<"foo", "/", "baz", ".pk3">>
    [] c = 7 -> <<"..", "/", "a", ".pk3">>
    [] OTHER -> <<"foo", "/">>

\* zf.namelist()
Namelist(content) == [i \in 1..(Len(content) - 1) |-> EntryName(content[i])]

preferred_exts == << <<".pk3">>, <<".pk7">>, <<".wad">> >>

IsFileEntry(m) == ~EndsWith(m, <<"/">>)

IsPreferred(m) == \E i \in 1..Len(preferred_exts) : EndsWith(Lower(m), preferred_exts[i])

\* sort_key(n): (index of the first matching extension or 99, len(nlow))
SortKey(n) ==
  LET nlow == Lower(n)
      hit == {i \in 1..Len(preferred_exts) : EndsWith(nlow, preferred_exts[i])}
  IN IF hit # {}
       THEN <<CHOOSE i \in hit : \A j \in hit : i <= j, StrLen(nlow)>>
       ELSE <<99, StrLen(nlow)>>

KeyLeq(a, b) == a[1] < b[1] \/ (a[1] = b[1] /\ a[2] <= b[2])

RECURSIVE InsertByKey(_, _)
InsertByKey(x, sorted) ==
  IF sorted = <<>> THEN <<x>>
  ELSE IF KeyLeq(SortKey(x), SortKey(Head(sorted))) THEN <<x>> \o sorted
  ELSE <<Head(sorted)>> \o InsertByKey(x, Tail(sorted))

\* candidates.sort(key=sort_key): stable.
RECURSIVE SortByKey(_)
SortByKey(s) == IF s = <<>> THEN <<>> ELSE InsertByKey(Head(s), SortByKey(Tail(s)))

\* The file name zf.extract writes a member to, relative to the target
\* directory: empty and ".." components of the member's name are dropped.
RECURSIVE ArcNameFrom(_, _)
ArcNameFrom(s, start) ==
  IF s = <<>> THEN <<>>
  ELSE IF start /\ Head(s) \in {"/", ".."} THEN ArcNameFrom(Tail(s), TRUE)
  ELSE IF Head(s) = "/" THEN <<"/">> \o ArcNameFrom(Tail(s), TRUE)
  ELSE <<Head(s)>> \o ArcNameFrom(Tail(s), FALSE)

ArcName(member) == ArcNameFrom(member, TRUE)

\* zf.extract(member, dir): the entry's data is written under its name.
RECURSIVE ExtractEntries(_, _, _)
ExtractEntries(f, content, idx) ==
  IF idx = <<>> THEN f
  ELSE ExtractEntries(
         IF IsFileEntry(EntryName(content[Head(idx)]))
           THEN WriteFile(f, ArcName(EntryName(content[Head(idx)])), <<content[Head(idx)]>>)
           ELSE f,
         content, Tail(idx))

\* Mutant: an archive without a preferred entry is returned as it is, with
\* nothing extracted.
MaybeExtractNothing(f, archive_path) ==
  IF Lower(Suffix(archive_path)) # <<".zip">>
    THEN [ok |-> TRUE, path |-> archive_path, fs |-> f]
  ELSE IF ~IsZip(f[archive_path])
    THEN [ok |-> FALSE, path |-> None, fs |-> f]
  ELSE [ok |-> TRUE, path |-> archive_path, fs |-> f]

\* maybe_extract_and_pick_payload(dir / archive_path) on the directory f:
\* whether it returned, the path returned and the directory afterwards.
MaybeExtractAndPickPayload(f, archive_path) ==
  IF Lower(Suffix(archive_path)) # <<".zip">>
    THEN [ok |-> TRUE, path |-> archive_path, fs |-> f]
  ELSE IF ~IsZip(f[archive_path])
    THEN [ok |-> FALSE, path |-> None, fs |-> f]
  ELSE
    LET content == f[archive_path]
        members == SelectSeq(Namelist(content), IsFileEntry)
        candidates == SelectSeq(members, IsPreferred)
        pick == SortByKey(candidates)[1]
        pickIdx == CHOOSE i \in 1..(Len(content) - 1) :
                     /\ EntryName(content[i]) = pick
                     /\ \A j \in (i + 1)..(Len(content) - 1) : EntryName(content[j]) # pick
    IN IF candidates = <<>>
         THEN [ok |-> TRUE, path |-> archive_path,
               fs |-> ExtractEntries(f, content, [i \in 1..(Len(content) - 1) |-> i])]
         ELSE [ok |-> TRUE, path |-> pick,
               fs |-> ExtractEntries(f, content, <<pickIdx>>)]

(***************************************************************************)
(* The remote site and the mods directory of the pipeline (Spec).          *)
(*                                                                         *)
(* The remote pages and the remote file do not change during a behaviour.  *)
(* What a URL serves is fixed the first time it is fetched successfully    *)
(* and is the same for every later request.                                *)
(***************************************************************************)
StartAnchor == Anchor(<<"/", "downloads", "/", "start", "/", "f1">>, <<"x">>)

MirrorAnchor ==
  Anchor(<<"https://mirror.example", "/", "maximum-security", "%20", "v1", ".pk3">>, <<"x">>)

RootPages ==
  { EmptyPage,
    [text |-> <<>>, anchors |-> <<Anchor(ModPath \o <<"/", "downloads">>, <<"Downloads">>)>>] }

DlPages ==
  { EmptyPage,
    [text |-> <<>>,
     anchors |-> << Anchor(ModPath \o <<"/", "downloads", "/", "upload">>, <<"x">>),
                    Anchor(ModPath \o <<"/", "downloads", "/", "f1">>, <<"f1">>) >>] }

FileTexts ==
  { <<>>,
    << <<"MD5 Hash">>, <<"2", "A", "B">> >>,
    << <<"MD5 Hash">>, <<"2", "b", "9">>, <<"Filename">>, <<"mod", ".zip">> >>,
    << <<"Filename">>, <<"mod", ".zip">> >> }

FilePages == [text : FileTexts, anchors : {<<>>, <<StartAnchor>>}]

StartPages == { EmptyPage, [text |-> <<>>, anchors |-> <<MirrorAnchor>>] }

\* What the mirror streams: the chunks of the body, in order.
Streams == { <<1, 0, 2>>, <<1, 1>>, <<2, 9>>, <<1, 9>> }

LocalNames == { <<"mod", ".zip">>, <<"maximum-security", " ", "v1", ".pk3">> }

InitContents == { <<1>>, <<1, 2>>, <<2, 9>> }

NoLoc ==
  [downloads_url |-> None, filepage_url |-> None, start_url |-> None, md5 |-> None,
   suggested |-> None, direct_url |-> None, local_name |-> None, need |-> FALSE,
   got |-> 0, payload |-> None]

NoOutcome == [kind |-> "none", step |-> "none", why |-> "none"]

NoPrev == [valid |-> FALSE, force |-> FALSE, kind |-> "none", need |-> FALSE, gets |-> 0]

NoRemote ==
  [known |-> {}, root |-> EmptyPage, dl |-> EmptyPage, file |-> EmptyPage,
   start |-> EmptyPage, stream |-> <<>>]

InitPipe ==
  /\ nt \in BOOLEAN
  /\ remote = NoRemote
  /\ \E present \in SUBSET LocalNames : fs \in [present -> InitContents]
  /\ pc = "idle"
  /\ force = FALSE
  /\ loc = NoLoc
  /\ run = 0
  /\ steps = <<>>
  /\ http = 0
  /\ gets = 0
  /\ fs0 = fs
  /\ outcome = NoOutcome
  /\ prev = NoPrev

IdlePipe ==
  /\ nt = FALSE
  /\ remote = NoRemote
  /\ fs = <<>>
  /\ pc = "idle"
  /\ force = FALSE
  /\ loc = NoLoc
  /\ run = 0
  /\ steps = <<>>
  /\ http = 0
  /\ gets = 0
  /\ fs0 = <<>>
  /\ outcome = NoOutcome
  /\ prev = NoPrev

\* What the URL of `key` serves: fixed by the first successful fetch.
Served(key, pool) == IF key \in remote.known THEN {remote[key]} ELSE pool

Reveal(key, page) == [remote EXCEPT ![key] = page, !.known = @ \cup {key}]

\* Mutant: the error is swallowed and the failing step is run again.
RaiseAndRetry(step, why) ==
  /\ pc' = IF step = "cond" THEN "dl_get" ELSE step
  /\ UNCHANGED outcome

\* An exception leaves ensure_mod_payload: nothing else of the run executes.
Raise(step, why) ==
  /\ pc' = "failed"
  /\ outcome' = [kind |-> "failed", step |-> step, why |-> why]

\* _fetch_html raised: the request failed or the status was not 2xx.
FetchFailed(step) ==
  /\ steps' = Append(steps, step)
  /\ http' = http + 1
  /\ Raise(step, "http")
  /\ UNCHANGED <<nt, remote, fs, force, loc, run, gets, fs0, prev>>
  /\ UNCHANGED othersPipe

(***************************************************************************)
(* ensure_mod_payload, one action per step.                                *)
(***************************************************************************)
\* A call of ensure_mod_payload(DEFAULT_MOD_URL, mods_dir, f) begins.
StartRun(f) ==
  /\ pc \in {"idle", "done", "failed"}
  /\ run < MaxRuns
  /\ pc' = "find"
  /\ force' = f
  /\ loc' = NoLoc
  /\ run' = run + 1
  /\ steps' = <<>>
  /\ http' = 0
  /\ gets' = 0
  /\ fs0' = fs
  /\ outcome' = NoOutcome
  /\ prev' = IF run = 0 THEN NoPrev
             ELSE [valid |-> TRUE, force |-> force, kind |-> outcome.kind,
                   need |-> loc.need, gets |-> gets]
  /\ UNCHANGED <<nt, remote, fs>>
  /\ UNCHANGED othersPipe

\* downloads_url = find_downloads_page(session, mod_root_url)
StepFind(page) ==
  /\ pc = "find"
  /\ page \in Served("root", RootPages)
  /\ remote' = Reveal("root", page)
  /\ steps' = Append(steps, "find")
  /\ http' = http + 1
  /\ loc' = [loc EXCEPT !.downloads_url = FindDownloadsPage(page, DefaultModUrl).url]
  /\ pc' = "newest"
  /\ UNCHANGED <<nt, fs, force, run, gets, fs0, outcome, prev>>
  /\ UNCHANGED othersPipe

StepFindFails == pc = "find" /\ FetchFailed("find")

\* filepage_url = newest_filepage(session, downloads_url)
StepNewest(page) ==
  /\ pc = "newest"
  /\ page \in Served("dl", DlPages)
  /\ remote' = Reveal("dl", page)
  /\ steps' = Append(steps, "newest")
  /\ http' = http + 1
  /\ IF NewestFilepage(page, loc.downloads_url).ok
       THEN /\ loc' = [loc EXCEPT !.filepage_url = NewestFilepage(page, loc.downloads_url).url]
            /\ pc' = "parse"
            /\ UNCHANGED outcome
       ELSE /\ Raise("newest", "nofiles")
            /\ UNCHANGED loc
  /\ UNCHANGED <<nt, fs, force, run, gets, fs0, prev>>
  /\ UNCHANGED othersPipe

StepNewestFails == pc = "newest" /\ FetchFailed("newest")

\* start_url, md5, suggested = parse_filepage_for_md5_and_start(session, filepage_url)
StepParse(page) ==
  /\ pc = "parse"
  /\ page \in Served("file", FilePages)
  /\ remote' = Reveal("file", page)
  /\ steps' = Append(steps, "parse")
  /\ http' = http + 1
  /\ IF ParseFilepage(page, loc.filepage_url).ok
       THEN /\ loc' = [loc EXCEPT !.start_url = ParseFilepage(page, loc.filepage_url).start_url,
                                  !.md5 = ParseFilepage(page, loc.filepage_url).md5,
                                  !.suggested = ParseFilepage(page, loc.filepage_url).suggested]
            /\ pc' = "mirror"
            /\ UNCHANGED outcome
       ELSE /\ Raise("parse", "nostart")
            /\ UNCHANGED loc
  /\ UNCHANGED <<nt, fs, force, run, gets, fs0, prev>>
  /\ UNCHANGED othersPipe

StepParseFails == pc = "parse" /\ FetchFailed("parse")

\* direct_url = startpage_to_direct_url(session, start_url)
StepMirror(page) ==
  /\ pc = "mirror"
  /\ page \in Served("start", StartPages)
  /\ remote' = Reveal("start", page)
  /\ steps' = Append(steps, "mirror")
  /\ http' = http + 1
  /\ IF StartpageToDirectUrl(page, loc.start_url).ok
       THEN /\ loc' = [loc EXCEPT !.direct_url = StartpageToDirectUrl(page, loc.start_url).url]
            /\ pc' = "cond"
            /\ UNCHANGED outcome
       ELSE /\ Raise("mirror", "nomirror")
            /\ UNCHANGED loc
  /\ UNCHANGED <<nt, fs, force, run, gets, fs0, prev>>
  /\ UNCHANGED othersPipe

StepMirrorFails == pc = "mirror" /\ FetchFailed("mirror")

\* Lines 154-155: the local file name.
\* Mutant: the name in the mirror URL is used even when the file page
\* declares a Filename.
LocalNameFromUrl(suggested, direct_url) == Unquote(LastSegment(direct_url))

\* Lines 154-155.
LocalName(suggested, direct_url) ==
  IF suggested # None THEN suggested ELSE Unquote(LastSegment(direct_url))

\* Mutant: only a missing file is downloaded; force and the digest are ignored.
NeedIfMissing(f, local_path, md5, force_redownload) == ~Exists(f, local_path)

\* Mutant: a published digest always triggers the download.
NeedWhenMd5(f, local_path, md5, force_redownload) ==
  IF md5 # None THEN TRUE ELSE force_redownload \/ ~Exists(f, local_path)

\* Lines 157-163: whether the body has to be downloaded.
Need(f, local_path, md5, force_redownload) ==
  IF md5 # None /\ Exists(f, local_path) /\ ~force_redownload
    THEN Lower(Md5(f[local_path])) # Lower(md5)
    ELSE force_redownload \/ ~Exists(f, local_path)

\* Lines 154-164: the decision of the conditional download.
StepCond ==
  /\ pc = "cond"
  /\ steps' = Append(steps, "cond")
  /\ LET local_name == LocalName(loc.suggested, loc.direct_url)
         need == Need(fs, local_name, loc.md5, force)
     IN /\ loc' = [loc EXCEPT !.local_name = local_name, !.need = need]
        /\ pc' = IF need THEN "dl_get" ELSE "unpack"
  /\ UNCHANGED <<nt, remote, fs, force, run, http, gets, fs0, outcome, prev>>
  /\ UNCHANGED othersPipe

(***************************************************************************)
(* download_with_optional_md5(session, direct_url, local_path, md5)        *)
(***************************************************************************)
\* Mutant: the body is streamed into the destination itself.
TmpPathInPlace(out_path) == out_path

\* tmp = out_path.with_suffix(out_path.suffix + ".part")
TmpPath(out_path) == out_path \o <<".part">>

\* Path.rename(target): on Windows it raises FileExistsError when the target
\* exists; elsewhere it replaces the target.
RenameRaises(f, target, windows) == windows /\ Exists(f, target)

Rename(f, src, target) == WriteFile(RemoveFile(f, src), target, f[src])

\* Mutant: the digest is never compared.
Md5MismatchUnchecked(f, out_path, md5) == FALSE

\* Lines 101-107: the digest of the file differs from the one given.
Md5Mismatch(f, out_path, md5) ==
  md5 # None /\ Lower(Md5(f[out_path])) # Lower(md5)

\* session.get(url, stream=True) answered 2xx and tmp was opened for writing.
DlGet(stream) ==
  /\ pc = "dl_get"
  /\ stream \in Served("stream", Streams)
  /\ remote' = Reveal("stream", stream)
  /\ http' = http + 1
  /\ gets' = gets + 1
  /\ fs' = WriteFile(fs, TmpPath(loc.local_name), <<>>)
  /\ loc' = [loc EXCEPT !.got = 0]
  /\ pc' = "dl_stream"
  /\ UNCHANGED <<nt, force, run, steps, fs0, outcome, prev>>
  /\ UNCHANGED othersPipe

\* The request failed or raise_for_status raised: tmp was not opened.
DlGetFails ==
  /\ pc = "dl_get"
  /\ http' = http + 1
  /\ gets' = gets + 1
  /\ Raise("cond", "http")
  /\ UNCHANGED <<nt, remote, fs, force, loc, run, steps, fs0, prev>>
  /\ UNCHANGED othersPipe

\* One turn of the loop over r.iter_content: a chunk that is not empty is written.
DlChunk ==
  /\ pc = "dl_stream"
  /\ loc.got < Len(remote.stream)
  /\ LET chunk == remote.stream[loc.got + 1]
         tmp == TmpPath(loc.local_name)
     IN fs' = IF chunk # 0 THEN WriteFile(fs, tmp, Append(fs[tmp], chunk)) ELSE fs
  /\ loc' = [loc EXCEPT !.got = @ + 1]
  /\ UNCHANGED <<nt, remote, pc, force, run, steps, http, gets, fs0, outcome, prev>>
  /\ UNCHANGED othersPipe

\* The connection broke before the body was complete: iter_content raised.
DlBreaks ==
  /\ pc = "dl_stream"
  /\ loc.got < Len(remote.stream)
  /\ Raise("cond", "http")
  /\ UNCHANGED <<nt, remote, fs, force, loc, run, steps, http, gets, fs0, prev>>
  /\ UNCHANGED othersPipe

\* Line 100, after the last chunk: tmp.rename(out_path).
DlRename ==
  /\ pc = "dl_stream"
  /\ loc.got = Len(remote.stream)
  /\ IF RenameRaises(fs, loc.local_name, nt)
       THEN /\ Raise("cond", "rename")
            /\ UNCHANGED fs
       ELSE /\ fs' = Rename(fs, TmpPath(loc.local_name), loc.local_name)
            /\ pc' = "dl_verify"
            /\ UNCHANGED outcome
  /\ UNCHANGED <<nt, remote, force, loc, run, steps, http, gets, fs0, prev>>
  /\ UNCHANGED othersPipe

\* Lines 101-107: the optional check of the digest.
DlVerify ==
  /\ pc = "dl_verify"
  /\ IF Md5Mismatch(fs, loc.local_name, loc.md5)
       THEN Raise("cond", "md5")
       ELSE pc' = "unpack" /\ UNCHANGED outcome
  /\ UNCHANGED <<nt, remote, fs, force, loc, run, steps, http, gets, fs0, prev>>
  /\ UNCHANGED othersPipe

\* return maybe_extract_and_pick_payload(local_path)
StepUnpack ==
  /\ pc = "unpack"
  /\ steps' = Append(steps, "unpack")
  /\ LET r == MaybeExtractAndPickPayload(fs, loc.local_name)
     IN IF r.ok
          THEN /\ fs' = r.fs
               /\ loc' = [loc EXCEPT !.payload = r.path]
               /\ pc' = "done"
               /\ outcome' = [kind |-> "done", step |-> "unpack", why |-> "none"]
          ELSE /\ Raise("unpack", "badzip")
               /\ UNCHANGED <<fs, loc>>
  /\ UNCHANGED <<nt, remote, force, run, http, gets, fs0, prev>>
  /\ UNCHANGED othersPipe

NextPipe ==
  \/ \E f \in BOOLEAN : StartRun(f)
  \/ \E page \in RootPages : StepFind(page)
  \/ StepFindFails
  \/ \E page \in DlPages : StepNewest(page)
  \/ StepNewestFails
  \/ \E page \in FilePages : StepParse(page)
  \/ StepParseFails
  \/ \E page \in StartPages : StepMirror(page)
  \/ StepMirrorFails
  \/ StepCond
  \/ \E stream \in Streams : DlGet(stream)
  \/ DlGetFails
  \/ DlChunk
  \/ DlBreaks
  \/ DlRename
  \/ DlVerify
  \/ StepUnpack

(***************************************************************************)
(* The IWAD selector of app_src/main.py (SpecWad).                         *)
(*                                                                         *)
(* A directory is a set of entries [name, depth]: depth 0 is a file of the *)
(* directory itself, depth 1 a file of a subdirectory.  Path.glob matches  *)
(* its pattern with the case rules of the path flavour: exactly on POSIX,  *)
(* ignoring case on Windows.  The order in which glob yields the matches   *)
(* is the order of the directory listing, which is arbitrary.              *)
(***************************************************************************)
MaxWads == 3

WadNames ==
  { <<"doom2", ".wad">>, <<"DOOM2", ".WAD">>, <<"Doom2", ".wad">>,
    <<"freedoom2", ".wad">>, <<"freedoom1", ".wad">>, <<"freedm", ".wad">>,
    <<"a", ".wad">>, <<"foo", ".txt">> }

WadEntries == [name : WadNames, depth : {0, 1}]

NoWadOut == [done |-> FALSE, found |-> FALSE, path |-> None, cands |-> <<>>]

\* fnmatch of the pattern "*.wad" on a file name.
MatchesWadPattern(name) ==
  EndsWith(IF wdNt THEN Lower(name) ELSE name, <<".wad">>)

\* root.glob("*.wad") and root.rglob("*.wad"), as sets.
Glob(dir) == {e \in dir : e.depth = 0 /\ MatchesWadPattern(e.name)}

RGlob(dir) == {e \in dir : MatchesWadPattern(e.name)}

\* Mutant: the name is compared as it is spelled.
ScoreWadNameNoFold(p) ==
  LET n == p.name
  IN CASE n = <<"doom2", ".wad">> -> <<0, StrLen(n)>>
       [] n = <<"freedoom2", ".wad">> -> <<1, StrLen(n)>>
       [] n = <<"freedoom1", ".wad">> -> <<2, StrLen(n)>>
       [] n = <<"freedm", ".wad">> -> <<3, StrLen(n)>>
       [] OTHER -> <<9, StrLen(n)>>

\* _score_wad_name(p)
ScoreWadName(p) ==
  LET n == Lower(p.name)
  IN CASE n = <<"doom2", ".wad">> -> <<0, StrLen(n)>>
       [] n = <<"freedoom2", ".wad">> -> <<1, StrLen(n)>>
       [] n = <<"freedoom1", ".wad">> -> <<2, StrLen(n)>>
       [] n = <<"freedm", ".wad">> -> <<3, StrLen(n)>>
       [] OTHER -> <<9, StrLen(n)>>

RECURSIVE InsertByScore(_, _)
InsertByScore(x, sorted) ==
  IF sorted = <<>> THEN <<x>>
  ELSE IF KeyLeq(ScoreWadName(x), ScoreWadName(Head(sorted))) THEN <<x>> \o sorted
  ELSE <<Head(sorted)>> \o InsertByScore(x, Tail(sorted))

\* cands.sort(key=_score_wad_name): stable.
RECURSIVE SortByScore(_)
SortByScore(s) == IF s = <<>> THEN <<>> ELSE InsertByScore(Head(s), SortByScore(Tail(s)))

\* The orders in which a listing can yield the set S.
Listings(S) ==
  {s \in [1..Cardinality(S) -> S] : \A e \in S : \E i \in 1..Cardinality(S) : s[i] = e}

\* _pick_best_local_wad, from the list of candidates on.
PickBestOf(cands) ==
  IF cands = <<>> THEN [NoWadOut EXCEPT !.done = TRUE]
  ELSE [done |-> TRUE, found |-> TRUE, path |-> SortByScore(cands)[1], cands |-> cands]

InitWad ==
  /\ wdNt \in BOOLEAN
  /\ wdDir \in {d \in SUBSET WadEntries : Cardinality(d) <= MaxWads}
  \* a Windows directory holds no two names that differ in case only
  /\ wdNt => \A e1, e2 \in wdDir :
               (e1.depth = e2.depth /\ Lower(e1.name) = Lower(e2.name)) => e1 = e2
  /\ wdOut = NoWadOut

IdleWad ==
  /\ wdNt = FALSE
  /\ wdDir = {}
  /\ wdOut = NoWadOut

\* _pick_best_local_wad(root) when glob yields the candidates in `order`.
PickBestLocalWad(order) ==
  /\ ~wdOut.done
  /\ wdOut' = PickBestOf(order)
  /\ UNCHANGED <<wdNt, wdDir>>
  /\ UNCHANGED othersWad

NextWad ==
  \E order \in Listings(IF Glob(wdDir) # {} THEN Glob(wdDir) ELSE RGlob(wdDir)) :
    PickBestLocalWad(order)

(***************************************************************************)
(* The unpacker applied to one directory (SpecUnpack).                     *)
(***************************************************************************)
MaxEntries == 2

ArchiveNames == { <<"mod", ".zip">>, <<"mod", ".ZIP">>, <<"mod", ".pk3">> }

\* Archive members by their chunk, and the files that may lie next to the
\* archive before it is unpacked (content 8: not from any archive).
EntryChunks == {1, 2, 3, 4, 5, 6, 7}

Neighbours == { <<"foo", ".txt">>, <<"baz", ".PK3">> }

RECURSIVE EntrySeqs(_)
EntrySeqs(n) ==
  IF n = 0 THEN { <<>> }
  ELSE EntrySeqs(n - 1) \cup
       {Append(s, c) : s \in {t \in EntrySeqs(n - 1) : Len(t) = n - 1}, c \in EntryChunks}

NoUnpackOut == [done |-> FALSE, ok |-> FALSE, path |-> None, before |-> <<>>]

InitUnpack ==
  /\ uzPath \in ArchiveNames
  /\ \E entries \in EntrySeqs(MaxEntries), zip \in BOOLEAN, present \in SUBSET Neighbours :
       uzFs = WriteFile([q \in present |-> <<8>>], uzPath,
                        IF zip THEN Append(entries, 9) ELSE entries)
  /\ uzOut = NoUnpackOut

IdleUnpack ==
  /\ uzPath = None
  /\ uzFs = <<>>
  /\ uzOut = NoUnpackOut

\* maybe_extract_and_pick_payload(dir / uzPath)
Unpack ==
  /\ ~uzOut.done
  /\ LET r == MaybeExtractAndPickPayload(uzFs, uzPath)
     IN /\ uzFs' = r.fs
        /\ uzOut' = [done |-> TRUE, ok |-> r.ok, path |-> r.path, before |-> uzFs]
  /\ UNCHANGED uzPath
  /\ UNCHANGED othersUnpack

NextUnpack == Unpack

(***************************************************************************)
(* main() and show_preflight_and_run of app_src/main.py (SpecGui).         *)
(*                                                                         *)
(* The main thread runs main(); in interactive mode it sits in             *)
(* root.mainloop() and runs the Tk callbacks one at a time.  Every call of *)
(* progress_page starts a daemon thread running worker_func; when it ends, *)
(* the thread asks Tk to run its _finish on the main thread.  The user can *)
(* click the buttons that are shown, press Return or Escape, and close the *)
(* window with the window manager.                                         *)
(***************************************************************************)
MaxStarts == 2

NoRet == [set |-> FALSE, val |-> FALSE, worked |-> FALSE]

InitGui ==
  /\ guiHeadless \in BOOLEAN
  /\ guiMain = "start"
  /\ guiWin = "none"
  /\ guiPage = "preflight"
  /\ guiGo = FALSE
  /\ guiWorkers = <<>>
  /\ guiLog = <<>>
  /\ guiClosedBy = "none"
  /\ guiBox = FALSE
  /\ guiFailed = FALSE
  /\ guiRet = NoRet
  /\ guiLaunched = FALSE

IdleGui ==
  /\ guiHeadless = FALSE
  /\ guiMain = "start"
  /\ guiWin = "none"
  /\ guiPage = "preflight"
  /\ guiGo = FALSE
  /\ guiWorkers = <<>>
  /\ guiLog = <<>>
  /\ guiClosedBy = "none"
  /\ guiBox = FALSE
  /\ guiFailed = FALSE
  /\ guiRet = NoRet
  /\ guiLaunched = FALSE

\* main(): headless runs setup_all itself; otherwise the window is shown.
MainStart ==
  /\ guiMain = "start"
  /\ IF guiHeadless
       THEN guiMain' = "setup" /\ UNCHANGED guiWin
       ELSE guiMain' = "ui" /\ guiWin' = "open"
  /\ UNCHANGED <<guiHeadless, guiPage, guiGo, guiWorkers, guiLog, guiClosedBy, guiBox,
                 guiFailed, guiRet, guiLaunched>>
  /\ UNCHANGED othersGui

\* Headless: setup_all returned the paths.
HeadlessSetupOk ==
  /\ guiMain = "setup"
  /\ guiBox' = TRUE
  /\ guiMain' = "launch"
  /\ UNCHANGED <<guiHeadless, guiWin, guiPage, guiGo, guiWorkers, guiLog, guiClosedBy,
                 guiFailed, guiRet, guiLaunched>>
  /\ UNCHANGED othersGui

\* Headless: setup_all raised; nothing catches it, the process ends with 1.
HeadlessSetupFails ==
  /\ guiMain = "setup"
  /\ guiFailed' = TRUE
  /\ guiMain' = "exit1"
  /\ UNCHANGED <<guiHeadless, guiWin, guiPage, guiGo, guiWorkers, guiLog, guiClosedBy,
                 guiBox, guiRet, guiLaunched>>
  /\ UNCHANGED othersGui

\* on_exit()
OnExit ==
  /\ guiGo' = FALSE
  /\ guiWin' = "destroyed"
  /\ guiClosedBy' = "user"
  /\ UNCHANGED <<guiHeadless, guiMain, guiPage, guiWorkers, guiLog, guiBox, guiFailed,
                 guiRet, guiLaunched>>
  /\ UNCHANGED othersGui

\* on_continue(), with progress_page() and the thread it starts.
OnContinue ==
  /\ Len(guiWorkers) < MaxStarts
  /\ guiGo' = TRUE
  /\ guiPage' = "progress"
  /\ guiWorkers' = Append(guiWorkers, [st |-> "running", fin |-> "none", writes |-> 0,
                                       runs |-> 0, seen |-> "none"])
  /\ UNCHANGED <<guiHeadless, guiMain, guiWin, guiLog, guiClosedBy, guiBox, guiFailed,
                 guiRet, guiLaunched>>
  /\ UNCHANGED othersGui

\* The buttons are packed on the preflight page only.
ClickExit == guiMain = "ui" /\ guiWin = "open" /\ guiPage = "preflight" /\ OnExit

ClickContinue == guiMain = "ui" /\ guiWin = "open" /\ guiPage = "preflight" /\ OnContinue

\* The key bindings are on the root window, whatever it shows.
KeyEscape == guiMain = "ui" /\ guiWin = "open" /\ OnExit

KeyReturn == guiMain = "ui" /\ guiWin = "open" /\ OnContinue

\* The window manager's close button: Tk destroys the root window.
CloseWindow ==
  /\ guiMain = "ui"
  /\ guiWin = "open"
  /\ guiWin' = "destroyed"
  /\ guiClosedBy' = "user"
  /\ UNCHANGED <<guiHeadless, guiMain, guiPage, guiGo, guiWorkers, guiLog, guiBox,
                 guiFailed, guiRet, guiLaunched>>
  /\ UNCHANGED othersGui

\* _work of worker i, lines 429-433: worker_func returned (it has filled
\* setup_box) and done["ok"] is set, or it raised and done["err"] is set.
WorkerWrites(i, ok) ==
  /\ guiMain \in {"ui", "launch"}
  /\ i \in 1..Len(guiWorkers)
  /\ guiWorkers[i].st = "running"
  /\ guiWorkers' = [guiWorkers EXCEPT ![i].st = IF ok THEN "ok" ELSE "err",
                                      ![i].writes = @ + 1]
  /\ guiBox' = (guiBox \/ ok)
  /\ guiFailed' = (guiFailed \/ ~ok)
  /\ UNCHANGED <<guiHeadless, guiMain, guiWin, guiPage, guiGo, guiLog, guiClosedBy,
                 guiRet, guiLaunched>>
  /\ UNCHANGED othersGui

\* Mutant: the thread schedules _finish as soon as it starts.
MayScheduleEarly(w) == w.fin = "none"

\* The finally clause of _work is reached after the try block.
MaySchedule(w) == w.st \in {"ok", "err"} /\ w.fin = "none"

\* _work of worker i, lines 434-435: root.after(60, _finish) schedules its
\* _finish while the window exists, and raises in the thread when it does not.
WorkerSchedules(i) ==
  /\ guiMain \in {"ui", "launch"}
  /\ i \in 1..Len(guiWorkers)
  /\ MaySchedule(guiWorkers[i])
  /\ guiWorkers' = [guiWorkers EXCEPT ![i].fin =
                      IF guiWin = "open" THEN "scheduled" ELSE "raised"]
  /\ UNCHANGED <<guiHeadless, guiMain, guiWin, guiPage, guiGo, guiLog, guiClosedBy,
                 guiBox, guiFailed, guiRet, guiLaunched>>
  /\ UNCHANGED othersGui

\* _finish of worker i, run by the main loop.
Finish(i) ==
  /\ guiMain = "ui"
  /\ guiWin = "open"
  /\ i \in 1..Len(guiWorkers)
  /\ guiWorkers[i].fin = "scheduled"
  /\ guiWorkers' = [guiWorkers EXCEPT ![i].fin = "ran", ![i].runs = @ + 1,
                                      ![i].seen = guiWorkers[i].st]
  /\ IF guiWorkers[i].st = "ok"
       THEN guiWin' = "destroyed" /\ guiClosedBy' = "program" /\ UNCHANGED guiLog
       ELSE guiLog' = Append(guiLog, i) /\ UNCHANGED <<guiWin, guiClosedBy>>
  /\ UNCHANGED <<guiHeadless, guiMain, guiPage, guiGo, guiBox, guiFailed, guiRet,
                 guiLaunched>>
  /\ UNCHANGED othersGui

\* root.mainloop() returns once the window is destroyed:
\* return bool(proceed["go"]), and main() returns when that is False.
MainloopReturns ==
  /\ guiMain = "ui"
  /\ guiWin = "destroyed"
  /\ guiRet' = [set |-> TRUE, val |-> guiGo,
                worked |-> \E i \in 1..Len(guiWorkers) : guiWorkers[i].st = "ok"]
  /\ guiMain' = IF guiGo THEN "launch" ELSE "exit0"
  /\ UNCHANGED <<guiHeadless, guiWin, guiPage, guiGo, guiWorkers, guiLog, guiClosedBy,
                 guiBox, guiFailed, guiLaunched>>
  /\ UNCHANGED othersGui

\* launch_gzdoom(setup["gzdoom_path"], ...): a KeyError when setup is empty.
Launch ==
  /\ guiMain = "launch"
  /\ IF guiBox
       THEN guiLaunched' = TRUE /\ guiMain' = "exit0"
       ELSE guiMain' = "exit1" /\ UNCHANGED guiLaunched
  /\ UNCHANGED <<guiHeadless, guiWin, guiPage, guiGo, guiWorkers, guiLog, guiClosedBy,
                 guiBox, guiFailed, guiRet>>
  /\ UNCHANGED othersGui

NextGui ==
  \/ MainStart
  \/ HeadlessSetupOk
  \/ HeadlessSetupFails
  \/ ClickExit
  \/ ClickContinue
  \/ KeyEscape
  \/ KeyReturn
  \/ CloseWindow
  \/ \E i \in 1..MaxStarts, ok \in BOOLEAN : WorkerWrites(i, ok)
  \/ \E i \in 1..MaxStarts : WorkerSchedules(i)
  \/ \E i \in 1..MaxStarts : Finish(i)
  \/ MainloopReturns
  \/ Launch

(***************************************************************************)
(* The entrypoint (entrypoint/entrypoint.py, SpecEntry).                   *)
(*                                                                         *)
(* One run of main().  GitHub answers in one of five ways: the latest      *)
(* release holds the launcher asset; only one of the recent releases does; *)
(* no recent release does; the first request fails; the request for the    *)
(* list of releases fails.  A file is known by its size.                   *)
(***************************************************************************)
MaxSize == 2
MaxEntryRuns == 2

Tags == {"v1", "v2"}

GithubModes == {"latest", "recent", "no_asset", "unreachable", "list_fails"}

NoInfo == [some |-> FALSE, tag |-> "v1", size |-> 0]

NoFile == [exists |-> FALSE, size |-> 0]

InitEntry ==
  /\ epGithub \in [mode : GithubModes, tag : Tags, size : 1..MaxSize]
  /\ epLauncher \in {NoFile} \cup [exists : {TRUE}, size : 1..MaxSize]
  /\ epVersion \in [state : {"missing", "unreadable"}, tag : {"v1"}]
                   \cup [state : {"ok"}, tag : Tags]
  /\ epStatFails \in BOOLEAN
  /\ epPc = "lookup"
  /\ epInfo = NoInfo
  /\ epNeeds = FALSE
  /\ epDownloads = 0
  /\ epRan = FALSE
  /\ epExit = -1
  /\ epLauncher0 = epLauncher
  /\ epVersion0 = epVersion
  /\ epRun = 1
  \* a version file found at the start was written by an earlier update
  /\ epFull = IF epVersion.state = "ok" THEN {epVersion.tag} ELSE {}

IdleEntry ==
  /\ epGithub = [mode |-> "unreachable", tag |-> "v1", size |-> 1]
  /\ epLauncher = NoFile
  /\ epVersion = [state |-> "missing", tag |-> "v1"]
  /\ epStatFails = FALSE
  /\ epPc = "lookup"
  /\ epInfo = NoInfo
  /\ epNeeds = FALSE
  /\ epDownloads = 0
  /\ epRan = FALSE
  /\ epExit = -1
  /\ epLauncher0 = NoFile
  /\ epVersion0 = [state |-> "missing", tag |-> "v1"]
  /\ epRun = 1
  /\ epFull = {}

\* get_latest_launcher_info(): the info found, none after a RequestException,
\* or the RuntimeError raised when no recent release holds the asset.
GetLatestLauncherInfo(github) ==
  CASE github.mode \in {"latest", "recent"} ->
         [raised |-> FALSE, info |-> [some |-> TRUE, tag |-> github.tag, size |-> github.size]]
    [] github.mode = "no_asset" -> [raised |-> TRUE, info |-> NoInfo]
    [] OTHER -> [raised |-> FALSE, info |-> NoInfo]

\* load_local_version(version_file): the tag stored, or none.
LoadLocalVersion(version) ==
  IF version.state = "ok" THEN [some |-> TRUE, tag |-> version.tag]
  ELSE [some |-> FALSE, tag |-> "v1"]

\* Mutant: matching tags are enough, the size of the file is not looked at.
NeedsUpdateByTag(launcher, local_info, latest_info, stat_fails) ==
  \/ ~launcher.exists
  \/ ~local_info.some
  \/ local_info.tag # latest_info.tag

\* Lines 249-274: needs_update when latest_info was obtained.
NeedsUpdate(launcher, local_info, latest_info, stat_fails) ==
  IF ~launcher.exists THEN TRUE
  ELSE IF ~local_info.some THEN TRUE
  ELSE IF local_info.tag # latest_info.tag THEN TRUE
  ELSE IF stat_fails THEN TRUE
  ELSE launcher.size # latest_info.size

\* sys.exit(status)
Exit(status) == epPc' = "exited" /\ epExit' = status

\* Line 244: latest_info = get_latest_launcher_info(); an exception other
\* than RequestException reaches the handler of main(), which exits with 1.
Lookup ==
  /\ epPc = "lookup"
  /\ LET r == GetLatestLauncherInfo(epGithub)
     IN IF r.raised
          THEN Exit(1) /\ UNCHANGED epInfo
          ELSE epInfo' = r.info /\ epPc' = "decide" /\ UNCHANGED epExit
  /\ UNCHANGED <<epGithub, epLauncher, epVersion, epStatFails, epNeeds, epDownloads,
                 epRan, epLauncher0, epVersion0, epRun, epFull>>
  /\ UNCHANGED othersEntry

\* Lines 244-288: the decision.
Decide ==
  /\ epPc = "decide"
  /\ IF epInfo.some
       THEN LET needs == NeedsUpdate(epLauncher, LoadLocalVersion(epVersion), epInfo,
                                     epStatFails)
            IN /\ epNeeds' = needs
               /\ epPc' = IF needs THEN "download" ELSE "run"
               /\ UNCHANGED epExit
       ELSE /\ UNCHANGED epNeeds
            /\ IF epLauncher.exists
                 THEN epPc' = "run" /\ UNCHANGED epExit
                 ELSE Exit(1)
  /\ UNCHANGED <<epGithub, epLauncher, epVersion, epStatFails, epInfo, epDownloads,
                 epRan, epLauncher0, epVersion0, epRun, epFull>>
  /\ UNCHANGED othersEntry

\* Mutant: the number of bytes received is not compared with the asset's size.
SizeUnverified(got, expected_size) == TRUE

\* Line 204: downloaded_size == expected_size
SizeVerified(got, expected_size) == got = expected_size

\* download_launcher received `got` bytes in all and the stream ended: with
\* the expected size the version file is saved (which may fail silently),
\* otherwise the file is removed and the process exits with 1.
DownloadEnds(got, saved) ==
  /\ epPc = "download"
  /\ epDownloads' = epDownloads + 1
  /\ epFull' = IF got = epInfo.size THEN epFull \cup {epInfo.tag} ELSE epFull
  /\ IF SizeVerified(got, epInfo.size)
       THEN /\ epLauncher' = [exists |-> TRUE, size |-> got]
            /\ epVersion' = IF saved THEN [state |-> "ok", tag |-> epInfo.tag] ELSE epVersion
            /\ epPc' = "run"
            /\ UNCHANGED epExit
       ELSE /\ epLauncher' = NoFile
            /\ UNCHANGED epVersion
            /\ Exit(1)
  /\ UNCHANGED <<epGithub, epStatFails, epInfo, epNeeds, epRan, epLauncher0, epVersion0,
                 epRun>>
  /\ UNCHANGED othersEntry

\* download_launcher got a RequestException: before the file was opened, or
\* after `got` bytes were written to it.
DownloadFails(opened, got) ==
  /\ epPc = "download"
  /\ epDownloads' = epDownloads + 1
  /\ epLauncher' = IF opened THEN [exists |-> TRUE, size |-> got] ELSE epLauncher
  /\ Exit(1)
  /\ UNCHANGED <<epGithub, epVersion, epStatFails, epInfo, epNeeds, epRan, epLauncher0,
                 epVersion0, epRun, epFull>>
  /\ UNCHANGED othersEntry

\* Lines 309-316: run the launcher if it is there.
RunLauncher ==
  /\ epPc = "run"
  /\ IF epLauncher.exists
       THEN epRan' = TRUE /\ Exit(0)
       ELSE UNCHANGED epRan /\ Exit(1)
  /\ UNCHANGED <<epGithub, epLauncher, epVersion, epStatFails, epInfo, epNeeds,
                 epDownloads, epLauncher0, epVersion0, epRun, epFull>>
  /\ UNCHANGED othersEntry

\* The entrypoint is started again, on the files the last run left.
StartAgain ==
  /\ epPc = "exited"
  /\ epRun < MaxEntryRuns
  /\ epRun' = epRun + 1
  /\ epGithub' \in [mode : GithubModes, tag : Tags, size : 1..MaxSize]
  /\ epStatFails' \in BOOLEAN
  /\ epPc' = "lookup"
  /\ epInfo' = NoInfo
  /\ epNeeds' = FALSE
  /\ epDownloads' = 0
  /\ epRan' = FALSE
  /\ epExit' = -1
  /\ epLauncher0' = epLauncher
  /\ epVersion0' = epVersion
  /\ UNCHANGED <<epLauncher, epVersion, epFull>>
  /\ UNCHANGED othersEntry

NextEntry ==
  \/ StartAgain
  \/ Lookup
  \/ Decide
  \/ \E got \in 0..MaxSize, saved \in BOOLEAN : DownloadEnds(got, saved)
  \/ \E opened \in BOOLEAN, got \in 0..(MaxSize - 1) : DownloadFails(opened, got)
  \/ RunLauncher

(***************************************************************************)
(* ensure_iwad of app_src/main.py (SpecIwad).  The iwads directory is a    *)
(* set of [name, depth, unz] entries: unz marks the files below the        *)
(* extraction directory unz_<name> an earlier download left there.  The    *)
(* Freedoom archive is a set of [name, depth] members.  os.name is wdNt,   *)
(* which decides how glob compares names and what rename does when the     *)
(* destination exists.                                                     *)
(***************************************************************************)
MaxLocal == 2
MaxArc == 2

IwadNames == { <<"doom2", ".wad">>, <<"freedoom2", ".wad">> }

IwadEntries ==
  {e \in [name : IwadNames, depth : {0, 1}, unz : BOOLEAN] : e.unz => e.depth = 1}

ArcNames == { <<"freedoom2", ".wad">>, <<"FREEDM", ".WAD">>, <<"foo", ".txt">> }

ArcEntries == [name : ArcNames, depth : {0, 1}]

PreferPaths == {"none", "missing", "exists"}

NoIwadOut == [kind |-> "none", path |-> None, why |-> "none"]

\* The candidates of _pick_best_local_wad(root): glob, else rglob.
WadCands(dir) == IF Glob(dir) # {} THEN Glob(dir) ELSE RGlob(dir)

\* Mutant: the local WAD is taken whatever force_update says.
LocalAllowedAlways(force_update) == TRUE

\* `if not force_update:` guards the search of the iwads directory.
LocalAllowed(force_update) == ~force_update

InitIwad ==
  /\ iwPrefer \in PreferPaths
  /\ iwForce \in BOOLEAN
  /\ iwDir \in {d \in SUBSET IwadEntries : Cardinality(d) <= MaxLocal}
  /\ iwArc \in {a \in SUBSET ArcEntries : Cardinality(a) <= MaxArc}
  /\ iwZip \in BOOLEAN
  /\ iwUnzDirs \in BOOLEAN
  \* files below the extraction directory come from an earlier download
  /\ (\E e \in iwDir : e.unz) => iwZip
  /\ iwUnzDirs => iwZip
  /\ iwPc = "start"
  /\ iwHttp = 0
  /\ iwOut = NoIwadOut
  /\ iwDir0 = iwDir

IdleIwad ==
  /\ iwPrefer = "none"
  /\ iwForce = FALSE
  /\ iwDir = {}
  /\ iwArc = {}
  /\ iwZip = FALSE
  /\ iwUnzDirs = FALSE
  /\ iwPc = "idle"
  /\ iwHttp = 0
  /\ iwOut = NoIwadOut
  /\ iwDir0 = {}

\* `if prefer_path and Path(prefer_path).exists(): return ...`
EnsureIwadPrefer ==
  /\ iwPc = "start"
  /\ iwPrefer = "exists"
  /\ iwPc' = "done"
  /\ iwOut' = [kind |-> "prefer", path |-> None, why |-> "none"]
  /\ UNCHANGED <<iwPrefer, iwForce, iwDir, iwArc, iwZip, iwUnzDirs, iwHttp, iwDir0>>
  /\ UNCHANGED othersIwad

\* The search of the iwads directory, glob yielding the candidates in `order`.
EnsureIwadLocal(order) ==
  /\ iwPc = "start"
  /\ iwPrefer # "exists"
  /\ LocalAllowed(iwForce)
  /\ LET existing == PickBestOf(order)
     IN IF existing.found
        THEN /\ iwPc' = "done"
             /\ iwOut' = [kind |-> "local", path |-> existing.path, why |-> "none"]
        ELSE /\ iwPc' = "api"
             /\ iwOut' = iwOut
  /\ UNCHANGED <<iwPrefer, iwForce, iwDir, iwArc, iwZip, iwUnzDirs, iwHttp, iwDir0>>
  /\ UNCHANGED othersIwad

\* force_update: the search is skipped.
EnsureIwadSkipLocal ==
  /\ iwPc = "start"
  /\ iwPrefer # "exists"
  /\ ~LocalAllowed(iwForce)
  /\ iwPc' = "api"
  /\ UNCHANGED <<iwPrefer, iwForce, iwDir, iwArc, iwZip, iwUnzDirs, iwHttp, iwOut, iwDir0>>
  /\ UNCHANGED othersIwad

\* _prefer_freedoom_zip(session): one request to the GitHub API.
PreferFreedoomZip(res) ==
  /\ iwPc = "api"
  /\ iwHttp' = iwHttp + 1
  /\ IF res = "ok"
     THEN /\ iwPc' = "get"
          /\ iwOut' = iwOut
     ELSE /\ iwPc' = "failed"
          /\ iwOut' = [kind |-> "failed", path |-> None, why |-> res]
  /\ UNCHANGED <<iwPrefer, iwForce, iwDir, iwArc, iwZip, iwUnzDirs, iwDir0>>
  /\ UNCHANGED othersIwad

\* http_download(session, url, zpath): the body goes to zpath.part, which
\* is renamed to zpath; on Windows rename raises when zpath exists.
HttpDownloadZip(res) ==
  /\ iwPc = "get"
  /\ iwHttp' = iwHttp + 1
  /\ IF res # "ok"
     THEN /\ iwPc' = "failed"
          /\ iwOut' = [kind |-> "failed", path |-> None, why |-> res]
          /\ iwZip' = iwZip
     ELSE IF wdNt /\ iwZip
     THEN /\ iwPc' = "failed"
          /\ iwOut' = [kind |-> "failed", path |-> None, why |-> "rename"]
          /\ iwZip' = iwZip
     ELSE /\ iwPc' = "extract"
          /\ iwOut' = iwOut
          /\ iwZip' = TRUE
  /\ UNCHANGED <<iwPrefer, iwForce, iwDir, iwArc, iwUnzDirs, iwDir0>>
  /\ UNCHANGED othersIwad

\* The extraction directory is emptied of its files (unlink of a directory
\* raises IsADirectoryError on POSIX, which is passed over, and
\* PermissionError on Windows, which is not), the archive is extracted,
\* the best WAD is picked and copied next to the archive.
ExtractAndPick(zip_ok, order) ==
  /\ iwPc = "extract"
  /\ LET kept == {e \in iwDir : ~e.unz}
         extracted == {[name |-> a.name, depth |-> 1, unz |-> TRUE] : a \in iwArc}
         wad == PickBestOf(order)
         final == [name |-> wad.path.name, depth |-> 0, unz |-> FALSE]
     IN IF wdNt /\ iwUnzDirs
        THEN /\ iwPc' = "failed"
             /\ iwOut' = [kind |-> "failed", path |-> None, why |-> "unlink"]
             /\ iwDir' = iwDir
        ELSE IF ~zip_ok
        THEN /\ iwPc' = "failed"
             /\ iwOut' = [kind |-> "failed", path |-> None, why |-> "bad_zip"]
             /\ iwDir' = kept
        ELSE IF ~wad.found
        THEN /\ iwPc' = "failed"
             /\ iwOut' = [kind |-> "failed", path |-> None, why |-> "no_wad"]
             /\ iwDir' = kept \cup extracted
        ELSE /\ iwPc' = "done"
             /\ iwOut' = [kind |-> "download", path |-> final, why |-> "none"]
             /\ iwDir' = kept \cup extracted \cup {final}
  /\ UNCHANGED <<iwPrefer, iwForce, iwArc, iwZip, iwUnzDirs, iwHttp, iwDir0>>
  /\ UNCHANGED othersIwad

NextIwad ==
  \/ EnsureIwadPrefer
  \/ \E order \in Listings(WadCands(iwDir)) : EnsureIwadLocal(order)
  \/ EnsureIwadSkipLocal
  \/ \E res \in {"ok", "http_error", "no_zip"} : PreferFreedoomZip(res)
  \/ \E res \in {"ok", "http_error"} : HttpDownloadZip(res)
  \/ \E zip_ok \in BOOLEAN, order \in Listings(WadCands(iwArc)) : ExtractAndPick(zip_ok, order)

(***************************************************************************)
(* The deploy scripts (SpecDeploy): deploy/deploy_launcher.py and          *)
(* deploy/deploy_game.py publish to GitHub, scripts/deploy_game.py only    *)
(* registers a build.  The manifest file is [state, launcher, hasBuilds,   *)
(* builds]; a version is kept as JSON holds it (absent, null, a number or  *)
(* a string of characters) and int() and str() work on the characters.     *)
(***************************************************************************)
MaxDeploys == 2

Scripts == {"launcher", "game", "register"}

GameVersions == {"0.4a", "0.4b"}

Digits == <<"0", "1", "2", "3", "4", "5", "6", "7", "8", "9">>

IsDigit(c) == \E d \in 1..10 : Digits[d] = c

DigitVal(c) == (CHOOSE d \in 1..10 : Digits[d] = c) - 1

\* str.strip() of the whitespace int() tolerates.
RECURSIVE StripLeft(_)
StripLeft(s) == IF s # <<>> /\ Head(s) = " " THEN StripLeft(Tail(s)) ELSE s

RECURSIVE StripRight(_)
StripRight(s) ==
  IF s # <<>> /\ s[Len(s)] = " " THEN StripRight(SubSeq(s, 1, Len(s) - 1)) ELSE s

RECURSIVE DigitsVal(_)
DigitsVal(s) ==
  IF s = <<>> THEN 0 ELSE 10 * DigitsVal(SubSeq(s, 1, Len(s) - 1)) + DigitVal(s[Len(s)])

\* int(s) of a string: [ok, val]; ok is FALSE where int raises ValueError.
IntOfStr(s) ==
  LET t == StripRight(StripLeft(s))
      signed == t # <<>> /\ Head(t) \in {"+", "-"}
      body == IF signed THEN Tail(t) ELSE t
  IN IF body # <<>> /\ \A i \in 1..Len(body) : IsDigit(body[i])
     THEN [ok |-> TRUE,
           val |-> IF signed /\ Head(t) = "-" THEN 0 - DigitsVal(body) ELSE DigitsVal(body)]
     ELSE [ok |-> FALSE, val |-> 0]

\* str(n) of an integer.
RECURSIVE StrOfNat(_)
StrOfNat(n) == IF n < 10 THEN <<Digits[n + 1]>> ELSE StrOfNat(n \div 10) \o <<Digits[(n % 10) + 1]>>

StrOfInt(n) == IF n < 0 THEN <<"-">> \o StrOfNat(0 - n) ELSE StrOfNat(n)

\* JSON values of a "version" key.
NoVer == [kind |-> "absent", num |-> 0, str |-> <<>>]
NullVer == [kind |-> "null", num |-> 0, str |-> <<>>]
NumVer(n) == [kind |-> "num", num |-> n, str |-> <<>>]
StrVer(s) == [kind |-> "str", num |-> 0, str |-> s]

LauncherVersions ==
  { NoVer, NullVer, NumVer(1), StrVer(<<"1">>), StrVer(<<" ", "9">>),
    StrVer(<<"1", ".", "0">>) }

\* URLs: [tag, run]; run > 0 names the deployment whose upload returned it.
NoUrl == [tag |-> <<>>, run |-> 0]
OldUrl == [tag |-> <<"old">>, run |-> 0]
PlaceholderUrl == [tag |-> <<"TO_BE_FILLED_WITH_GITHUB_RELEASE_URL">>, run |-> 0]

NoLauncher == [kind |-> "absent", version |-> NoVer, url |-> NoUrl]
NullLauncher == [kind |-> "null", version |-> NoVer, url |-> NoUrl]

InitLaunchers ==
  {NoLauncher, NullLauncher} \cup
  {[kind |-> "obj", version |-> v, url |-> OldUrl] : v \in LauncherVersions}

\* A game build; version "none": the entry has no "version" key.
OldBuild(v) == [version |-> v, url |-> OldUrl, run |-> 0]

InitBuilds ==
  { <<>>, <<OldBuild("0.4a")>>, <<OldBuild("0.4a"), OldBuild("0.4b")>>,
    <<OldBuild("0.4b"), OldBuild("none")>> }

MissingManifest ==
  [state |-> "missing", launcher |-> NoLauncher, hasBuilds |-> FALSE, builds |-> <<>>]

InvalidManifest == [MissingManifest EXCEPT !.state = "invalid"]

InitManifests ==
  {MissingManifest, InvalidManifest} \cup
  {[state |-> "ok", launcher |-> l, hasBuilds |-> (b # <<>>), builds |-> b] :
     l \in InitLaunchers, b \in InitBuilds} \cup
  {[state |-> "ok", launcher |-> l, hasBuilds |-> TRUE, builds |-> <<>>] : l \in InitLaunchers}

NoDeploy ==
  [script |-> "none", pc |-> "idle", version |-> "none", cur |-> 0, new |-> 0,
   tag |-> <<>>, url |-> NoUrl]

InitDeploy ==
  /\ dpManifest \in InitManifests
  /\ dpRun = NoDeploy
  /\ dpCount = 0
  /\ dpExit = -1
  /\ dpLog = <<>>
  /\ dpReleases = {}
  /\ dpUploaded = {}
  /\ dpWritten = {}
  /\ dpManifest0 = dpManifest

IdleDeploy ==
  /\ dpManifest = MissingManifest
  /\ dpRun = NoDeploy
  /\ dpCount = 0
  /\ dpExit = -1
  /\ dpLog = <<>>
  /\ dpReleases = {}
  /\ dpUploaded = {}
  /\ dpWritten = {}
  /\ dpManifest0 = MissingManifest

varsDeployRest == <<dpManifest, dpCount, dpLog, dpReleases, dpUploaded, dpWritten, dpManifest0>>

\* `except Exception as e: ... sys.exit(1)`
DeployFails ==
  /\ dpRun' = [dpRun EXCEPT !.pc = "done"]
  /\ dpExit' = 1

DeployGoes(next) ==
  /\ dpRun' = [dpRun EXCEPT !.pc = next]
  /\ dpExit' = dpExit

\* One of the scripts is started.
StartDeploy(script, version) ==
  /\ dpRun.pc \in {"idle", "done"}
  /\ dpCount < MaxDeploys
  /\ dpCount' = dpCount + 1
  /\ dpRun' = [NoDeploy EXCEPT !.script = script,
                               !.version = IF script = "launcher" THEN "none" ELSE version,
                               !.pc = IF script = "game" THEN "pk3" ELSE "ensure"]
  /\ dpExit' = -1
  /\ dpLog' = <<>>
  /\ dpManifest0' = dpManifest
  /\ UNCHANGED <<dpManifest, dpReleases, dpUploaded, dpWritten>>
  /\ UNCHANGED othersDeploy

\* deploy_game.py: `if not game_pk3_path.exists(): raise FileNotFoundError`
CheckPk3(exists) ==
  /\ dpRun.pc = "pk3"
  /\ IF exists THEN DeployGoes("ensure") ELSE DeployFails
  /\ UNCHANGED varsDeployRest
  /\ UNCHANGED othersDeploy

\* ensure_dist_repo(): the bootstrap script succeeds or fails.
EnsureDistRepo(ok) ==
  /\ dpRun.pc = "ensure"
  /\ IF ok
     THEN DeployGoes(IF dpRun.script = "launcher" THEN "revision" ELSE "prepare")
     ELSE DeployFails
  /\ UNCHANGED varsDeployRest
  /\ UNCHANGED othersDeploy

\* int(version_str), 0 where it raises ValueError or TypeError.
IntOrZero(v) ==
  CASE v.kind = "absent" -> 0      \* launcher.get("version", "0")
    [] v.kind = "null" -> 0        \* int(None): TypeError
    [] v.kind = "num" -> v.num
    [] OTHER -> IF IntOfStr(v.str).ok THEN IntOfStr(v.str).val ELSE 0

\* get_current_launcher_revision(): [ok, val]; a manifest that is not JSON
\* or a launcher section that is null raises past the function.
CurrentLauncherRevision(m) ==
  CASE m.state = "missing" -> [ok |-> TRUE, val |-> 0]
    [] m.state = "invalid" -> [ok |-> FALSE, val |-> 0]
    [] m.launcher.kind = "null" -> [ok |-> FALSE, val |-> 0]
    [] m.launcher.kind = "absent" -> [ok |-> TRUE, val |-> 0]
    [] OTHER -> [ok |-> TRUE, val |-> IntOrZero(m.launcher.version)]

\* Mutant: the revision is not advanced.
NewRevisionSame(current_revision) == current_revision

\* `new_revision = current_revision + 1`
NewRevision(current_revision) == current_revision + 1

\* deploy_launcher.py, step 2.
GetCurrentLauncherRevision ==
  /\ dpRun.pc = "revision"
  /\ LET cur == CurrentLauncherRevision(dpManifest)
     IN IF cur.ok
        THEN /\ dpRun' = [dpRun EXCEPT !.pc = "prepare", !.cur = cur.val,
                                       !.new = NewRevision(cur.val)]
             /\ dpExit' = dpExit
        ELSE DeployFails
  /\ UNCHANGED varsDeployRest
  /\ UNCHANGED othersDeploy

\* Build, artifact lookup, hashing, token and repository name: the steps
\* between the dist repo and the release (the manifest, for the register
\* script) that touch neither GitHub nor the manifest.
PrepareArtifact(ok) ==
  /\ dpRun.pc = "prepare"
  /\ IF ok
     THEN DeployGoes(IF dpRun.script = "register" THEN "manifest" ELSE "release")
     ELSE DeployFails
  /\ UNCHANGED varsDeployRest
  /\ UNCHANGED othersDeploy

\* The tag of the release: str(new_revision), or "game-<version>".
ReleaseTag(r) ==
  IF r.script = "launcher" THEN StrOfInt(r.new) ELSE <<"game-", r.version>>

\* create_github_release / the POST of deploy_game.py.
CreateGithubRelease(ok) ==
  /\ dpRun.pc = "release"
  /\ IF ok
     THEN /\ dpRun' = [dpRun EXCEPT !.pc = "upload", !.tag = ReleaseTag(dpRun)]
          /\ dpExit' = dpExit
          /\ dpReleases' = dpReleases \cup {ReleaseTag(dpRun)}
          /\ dpLog' = Append(dpLog, "release")
     ELSE /\ DeployFails
          /\ UNCHANGED <<dpReleases, dpLog>>
  /\ UNCHANGED <<dpManifest, dpCount, dpUploaded, dpWritten, dpManifest0>>
  /\ UNCHANGED othersDeploy

\* upload_release_asset: the asset's browser_download_url on success.
UploadReleaseAsset(ok) ==
  /\ dpRun.pc = "upload"
  /\ LET url == [tag |-> dpRun.tag, run |-> dpCount]
     IN IF ok
        THEN /\ dpRun' = [dpRun EXCEPT !.pc = "manifest", !.url = url]
             /\ dpExit' = dpExit
             /\ dpUploaded' = dpUploaded \cup {url}
             /\ dpLog' = Append(dpLog, "upload")
        ELSE /\ DeployFails
             /\ UNCHANGED <<dpUploaded, dpLog>>
  /\ UNCHANGED <<dpManifest, dpCount, dpReleases, dpWritten, dpManifest0>>
  /\ UNCHANGED othersDeploy

\* Mutant: the manifest step may run as soon as the release is asked for.
ManifestStepEarly(r) == r.pc \in {"release", "upload", "manifest"}

\* The manifest step is reached after the upload returned.
ManifestStep(r) == r.pc = "manifest"

\* save_manifest(manifest): open(..., 'w') truncates the file, so a write
\* that fails leaves a file that is not JSON.
SaveManifest(m, saved, next) ==
  IF saved
  THEN /\ dpManifest' = m
       /\ dpLog' = Append(dpLog, "manifest")
       /\ dpRun' = [dpRun EXCEPT !.pc = next]
       /\ dpExit' = IF next = "done" THEN 0 ELSE dpExit
  ELSE /\ dpManifest' = InvalidManifest
       /\ dpLog' = Append(dpLog, "manifest_failed")
       /\ DeployFails

\* deploy_launcher.py, steps 9 and 10.
UpdateLauncherManifest(saved) ==
  /\ dpRun.script = "launcher"
  /\ ManifestStep(dpRun)
  /\ IF dpManifest.state # "ok"
     THEN /\ DeployFails
          /\ UNCHANGED <<dpManifest, dpLog, dpWritten>>
     ELSE /\ SaveManifest([dpManifest EXCEPT !.launcher =
                             [kind |-> "obj", version |-> StrVer(StrOfInt(dpRun.new)),
                              url |-> dpRun.url]], saved, "commit")
          /\ dpWritten' = IF saved THEN dpWritten \cup {dpRun.url} ELSE dpWritten
  /\ UNCHANGED <<dpCount, dpReleases, dpUploaded, dpManifest0>>
  /\ UNCHANGED othersDeploy

\* The generator of deploy_game.py reads b["version"] of every entry up to
\* the first match: an entry without the key raises KeyError.
ScanRaises(builds, version) ==
  \E i \in 1..Len(builds) :
    /\ builds[i].version = "none"
    /\ \A j \in 1..(i - 1) : builds[j].version # version

\* Mutant: no entry is ever found.
ExistingIdxNone(builds, version) == -1

\* The index of the first entry of the version, -1 if there is none.
ExistingIdx(builds, version) ==
  IF \E i \in 1..Len(builds) : builds[i].version = version
  THEN CHOOSE i \in 1..Len(builds) :
         /\ builds[i].version = version
         /\ \A j \in 1..(i - 1) : builds[j].version # version
  ELSE -1

\* Append or replace.
PutBuild(builds, new_build) ==
  LET existing_idx == ExistingIdx(builds, new_build.version)
  IN IF existing_idx >= 1
     THEN [builds EXCEPT ![existing_idx] = new_build]
     ELSE Append(builds, new_build)

\* deploy/deploy_game.py, step 6.
UpdateGameManifest(saved) ==
  /\ dpRun.script = "game"
  /\ ManifestStep(dpRun)
  /\ LET new_build == [version |-> dpRun.version, url |-> dpRun.url, run |-> dpCount]
     IN IF dpManifest.state # "ok" \/ ScanRaises(dpManifest.builds, dpRun.version)
        THEN /\ DeployFails
             /\ UNCHANGED <<dpManifest, dpLog, dpWritten>>
        ELSE /\ SaveManifest([dpManifest EXCEPT !.hasBuilds = TRUE,
                                !.builds = PutBuild(dpManifest.builds, new_build)],
                             saved, "commit")
             /\ dpWritten' = IF saved THEN dpWritten \cup {dpRun.url} ELSE dpWritten
  /\ UNCHANGED <<dpCount, dpReleases, dpUploaded, dpManifest0>>
  /\ UNCHANGED othersDeploy

\* scripts/deploy_game.py, steps 4 to 7: find_or_create_game_build and
\* update; build.get("version") passes over entries without the key, and
\* manifest["game_builds"] raises KeyError when the key is missing.
RegisterGameBuild(url, saved) ==
  /\ dpRun.script = "register"
  /\ ManifestStep(dpRun)
  /\ LET new_build == [version |-> dpRun.version, url |-> url, run |-> dpCount]
     IN IF dpManifest.state # "ok" \/ ~dpManifest.hasBuilds
        THEN /\ DeployFails
             /\ UNCHANGED <<dpManifest, dpLog>>
        ELSE /\ SaveManifest([dpManifest EXCEPT
                                !.builds = PutBuild(dpManifest.builds, new_build)],
                             saved, "done")
  /\ UNCHANGED <<dpCount, dpReleases, dpUploaded, dpWritten, dpManifest0>>
  /\ UNCHANGED othersDeploy

\* commit_and_push_manifest: nothing to commit, a commit and a push, or a
\* git command that fails.
CommitAndPushManifest(res) ==
  /\ dpRun.pc = "commit"
  /\ dpRun' = [dpRun EXCEPT !.pc = "done"]
  /\ dpLog' = CASE res = "nothing" -> dpLog
                [] res = "commit_fails" -> dpLog
                [] res = "push_fails" -> Append(dpLog, "commit")
                [] OTHER -> dpLog \o <<"commit", "push">>
  /\ dpExit' = IF res \in {"nothing", "pushed"} THEN 0 ELSE 1
  /\ UNCHANGED <<dpManifest, dpCount, dpReleases, dpUploaded, dpWritten, dpManifest0>>
  /\ UNCHANGED othersDeploy

NextDeploy ==
  \/ \E script \in Scripts, version \in GameVersions : StartDeploy(script, version)
  \/ \E exists \in BOOLEAN : CheckPk3(exists)
  \/ \E ok \in BOOLEAN : EnsureDistRepo(ok)
  \/ GetCurrentLauncherRevision
  \/ \E ok \in BOOLEAN : PrepareArtifact(ok)
  \/ \E ok \in BOOLEAN : CreateGithubRelease(ok)
  \/ \E ok \in BOOLEAN : UploadReleaseAsset(ok)
  \/ \E saved \in BOOLEAN : UpdateLauncherManifest(saved)
  \/ \E saved \in BOOLEAN : UpdateGameManifest(saved)
  \/ \E url \in {PlaceholderUrl, OldUrl}, saved \in BOOLEAN : RegisterGameBuild(url, saved)
  \/ \E res \in {"nothing", "pushed", "commit_fails", "push_fails"} : CommitAndPushManifest(res)

(***************************************************************************)
(* setup_all of app_src/main.py (SpecSetup): the three stages, the updates *)
(* each stage reports, and the call of ensure_mod_payload, bound to its    *)
(* parameters the way Python binds a call.                                 *)
(***************************************************************************)
SetupArgs ==
  [gzdoom : BOOLEAN, iwad : BOOLEAN, update_iwad : BOOLEAN,
   skip_mod_update : BOOLEAN, force_mod_redownload : BOOLEAN]

\* What the run finds: gzdoom installed, a local IWAD, the mods directory
\* ("missing", "empty" or "has_mod"), and whether every network step
\* succeeds (netOk) or each may fail.
SetupEnvs ==
  [gzLocal : BOOLEAN, iwLocal : BOOLEAN, mods : {"missing", "empty", "has_mod"},
   netOk : BOOLEAN]

\* def ensure_mod_payload(mod_root_url, mods_dir, force_redownload=False, session=None)
EnsureModPayloadParams ==
  << [name |-> "mod_root_url", required |-> TRUE],
     [name |-> "mods_dir", required |-> TRUE],
     [name |-> "force_redownload", required |-> FALSE],
     [name |-> "session", required |-> FALSE] >>

\* The keywords setup_all passes after the two positional arguments.
SetupAllKeywords == {"force_redownload", "session", "progress"}

\* Python's binding of a call with npos positional arguments and the
\* keywords kw to a parameter list without * or **: TRUE when it binds,
\* FALSE when the call raises TypeError.
BindCall(params, npos, kw) ==
  /\ npos <= Len(params)
  /\ \A k \in kw : \E i \in 1..Len(params) : params[i].name = k /\ i > npos
  /\ \A i \in 1..Len(params) :
       params[i].required => (i <= npos \/ params[i].name \in kw)

NoSetupOut == [kind |-> "none", keys |-> {}, error |-> "none"]

InitSetup ==
  /\ suArgs \in SetupArgs
  /\ suEnv \in SetupEnvs
  /\ suPc = "gzdoom"
  /\ suUpdates = <<>>
  /\ suOut = NoSetupOut

IdleSetup ==
  /\ suArgs = [gzdoom |-> FALSE, iwad |-> FALSE, update_iwad |-> FALSE,
               skip_mod_update |-> FALSE, force_mod_redownload |-> FALSE]
  /\ suEnv = [gzLocal |-> FALSE, iwLocal |-> FALSE, mods |-> "missing", netOk |-> FALSE]
  /\ suPc = "idle"
  /\ suUpdates = <<>>
  /\ suOut = NoSetupOut

SetupRaises(error) ==
  /\ suPc' = "raised"
  /\ suOut' = [kind |-> "raised", keys |-> {}, error |-> error]

\* The GZDoom stage: ensure_gzdoom, then the "Ready" update.
SetupGzdoom(ok) ==
  /\ suPc = "gzdoom"
  /\ suEnv.netOk => ok
  /\ IF suArgs.gzdoom \/ suEnv.gzLocal
     THEN /\ suUpdates' = Append(suUpdates, [stage |-> "gzdoom", text |-> "Ready"])
          /\ suPc' = "iwad"
          /\ suOut' = suOut
     ELSE IF ok
     THEN /\ suUpdates' = suUpdates \o << [stage |-> "gzdoom", text |-> "Downloading"],
                                          [stage |-> "gzdoom", text |-> "Ready"] >>
          /\ suPc' = "iwad"
          /\ suOut' = suOut
     ELSE /\ suUpdates' = suUpdates
          /\ SetupRaises("network")
  /\ UNCHANGED <<suArgs, suEnv>>
  /\ UNCHANGED othersSetup

\* The IWAD stage.
SetupIwad(ok) ==
  /\ suPc = "iwad"
  /\ suEnv.netOk => ok
  /\ IF suArgs.iwad
     THEN /\ suUpdates' = Append(suUpdates, [stage |-> "iwad", text |-> "Using IWAD"])
          /\ suPc' = "mod"
          /\ suOut' = suOut
     ELSE IF suEnv.iwLocal /\ ~suArgs.update_iwad
     THEN /\ suUpdates' = Append(suUpdates, [stage |-> "iwad", text |-> "Using local IWAD"])
          /\ suPc' = "mod"
          /\ suOut' = suOut
     ELSE IF ok
     THEN /\ suUpdates' = suUpdates \o << [stage |-> "iwad", text |-> "Downloading"],
                                          [stage |-> "iwad", text |-> "Ready"] >>
          /\ suPc' = "mod"
          /\ suOut' = suOut
     ELSE /\ suUpdates' = suUpdates
          /\ SetupRaises("network")
  /\ UNCHANGED <<suArgs, suEnv>>
  /\ UNCHANGED othersSetup

\* `if args.skip_mod_update and MODS_DIR.exists()` with a candidate found.
UsesLocalMod == suArgs.skip_mod_update /\ suEnv.mods = "has_mod"

\* The mod stage: a local file, or the call of ensure_mod_payload.
SetupMod(ok) ==
  /\ suPc = "mod"
  /\ suEnv.netOk => ok
  /\ IF UsesLocalMod
     THEN /\ suUpdates' = Append(suUpdates, [stage |-> "mod", text |-> "Using local mod"])
          /\ suPc' = "done"
          /\ suOut' = [kind |-> "returned", keys |-> {"gzdoom_path", "iwad_path", "payload"},
                       error |-> "none"]
     ELSE IF ~BindCall(EnsureModPayloadParams, 2, SetupAllKeywords)
     THEN /\ suUpdates' = suUpdates
          /\ SetupRaises("TypeError")
     ELSE IF ok
     THEN /\ suUpdates' = suUpdates \o << [stage |-> "mod", text |-> "Fetching"],
                                          [stage |-> "mod", text |-> "Ready"] >>
          /\ suPc' = "done"
          /\ suOut' = [kind |-> "returned", keys |-> {"gzdoom_path", "iwad_path", "payload"},
                       error |-> "none"]
     ELSE /\ suUpdates' = suUpdates
          /\ SetupRaises("network")
  /\ UNCHANGED <<suArgs, suEnv>>
  /\ UNCHANGED othersSetup

NextSetup ==
  \/ \E ok \in BOOLEAN : SetupGzdoom(ok)
  \/ \E ok \in BOOLEAN : SetupIwad(ok)
  \/ \E ok \in BOOLEAN : SetupMod(ok)

Init == InitPipe /\ IdleLk /\ IdleWad /\ IdleUnpack /\ IdleGui /\ IdleEntry /\ IdleIwad /\ IdleDeploy /\ IdleSetup

Next == NextPipe

Spec == Init /\ [][Next]_vars

InitLinks == InitLk /\ IdlePipe /\ IdleWad /\ IdleUnpack /\ IdleGui /\ IdleEntry /\ IdleIwad /\ IdleDeploy /\ IdleSetup

SpecLinks == InitLinks /\ [][NextLk]_vars

InitWadSpec == InitWad /\ IdleLk /\ IdlePipe /\ IdleUnpack /\ IdleGui /\ IdleEntry /\ IdleIwad /\ IdleDeploy /\ IdleSetup

InitUnpackSpec == InitUnpack /\ IdleLk /\ IdlePipe /\ IdleWad /\ IdleGui /\ IdleEntry /\ IdleIwad /\ IdleDeploy /\ IdleSetup

SpecUnpack == InitUnpackSpec /\ [][NextUnpack]_vars

InitGuiSpec == InitGui /\ IdleLk /\ IdlePipe /\ IdleWad /\ IdleUnpack /\ IdleEntry /\ IdleIwad /\ IdleDeploy /\ IdleSetup

SpecGui == InitGuiSpec /\ [][NextGui]_vars

InitEntrySpec == InitEntry /\ IdleLk /\ IdlePipe /\ IdleWad /\ IdleUnpack /\ IdleGui /\ IdleIwad /\ IdleDeploy /\ IdleSetup

SpecEntry == InitEntrySpec /\ [][NextEntry]_vars

InitIwadSpec ==
  /\ InitIwad
  /\ wdNt \in BOOLEAN /\ wdDir = {} /\ wdOut = NoWadOut
  /\ IdleLk /\ IdlePipe /\ IdleUnpack /\ IdleGui /\ IdleEntry /\ IdleDeploy /\ IdleSetup

SpecIwad == InitIwadSpec /\ [][NextIwad]_vars

InitDeploySpec == InitDeploy /\ IdleLk /\ IdlePipe /\ IdleWad /\ IdleUnpack /\ IdleGui /\ IdleEntry /\ IdleIwad /\ IdleSetup

SpecDeploy == InitDeploySpec /\ [][NextDeploy]_vars

InitSetupSpec == InitSetup /\ IdleLk /\ IdlePipe /\ IdleWad /\ IdleUnpack /\ IdleGui /\ IdleEntry /\ IdleIwad /\ IdleDeploy

SpecSetup == InitSetupSpec /\ [][NextSetup]_vars

SpecWad == InitWadSpec /\ [][NextWad]_vars

TypeOK ==
  /\ pc \in {"idle", "find", "newest", "parse", "mirror", "cond", "dl_get", "dl_stream",
             "dl_verify", "unpack", "done", "failed"}
  /\ run \in 0..MaxRuns

(***************************************************************************)
(* Properties of ensure_mod_payload (Spec).                                *)
(***************************************************************************)
\* The content a stream leaves in the file: its chunks without the empty ones.
Body(stream) == SelectSeq(stream, LAMBDA c : c # 0)

\* The digest the file page publishes, in lower case; None when it has none.
Published == Md5Of(remote.file.text)

\* C1: when the file page publishes an MD5, a run returns a path only if the
\* file at the expected local path exists and has that MD5 when the run
\* returns; with any other file there, kept or just downloaded, the run has
\* not returned.
C1_ReadyImpliesMd5 ==
  (pc = "done" /\ Published # None) =>
     /\ Exists(fs, loc.local_name)
     /\ Lower(Md5(fs[loc.local_name])) = Lower(Published)

\* A run that replaced a stale local file by a download and returned.
C1_Witness ==
  /\ pc = "done"
  /\ Published # None
  /\ gets = 1
  /\ Exists(fs0, loc.local_name)
  /\ fs0[loc.local_name] # fs[loc.local_name]

\* C2: at every point of a run, also after a failure in the middle of the
\* stream, every destination in the mods directory is absent, holds what it
\* held when the run began, or holds the complete body; body chunks reach it
\* only through the rename.
C2_DestinationNeverPartial ==
  \A n \in LocalNames :
     Exists(fs, n) =>
        \/ Exists(fs0, n) /\ fs[n] = fs0[n]
        \/ /\ n = loc.local_name
           /\ "stream" \in remote.known
           /\ loc.got = Len(remote.stream)
           /\ fs[n] = Body(remote.stream)

\* The stream broke after a chunk was written: the temporary file holds a
\* proper prefix of the body and the destination still holds its old content.
C2_Witness ==
  /\ pc = "failed"
  /\ outcome.why = "http"
  /\ gets = 1
  /\ Exists(fs, TmpPath(loc.local_name))
  /\ fs[TmpPath(loc.local_name)] # <<>>
  /\ fs[TmpPath(loc.local_name)] # Body(remote.stream)
  /\ Exists(fs, loc.local_name)
  /\ fs[loc.local_name] = fs0[loc.local_name]

\* The three conditions of the claim, on the directory as the run found it.
SkipCondition ==
  /\ Exists(fs0, loc.local_name)
  /\ Published = None \/ Lower(Md5(fs0[loc.local_name])) = Lower(Published)
  /\ ~force

\* C3: once the conditional download step has run, the body download is
\* skipped if and only if the local file existed, no MD5 was published or the
\* file's MD5 equals it, and force_redownload is false; in every other case
\* the body is requested.
C3_SkipIffCondition ==
  (Len(steps) >= 5) =>
     /\ SkipCondition => gets = 0 /\ pc \in {"unpack", "done", "failed"}
     /\ ~SkipCondition => pc = "dl_get" \/ gets = 1

\* A run that skipped the download because the local file matched the MD5.
C3_Witness ==
  /\ pc = "done"
  /\ gets = 0
  /\ Published # None
  /\ ~force

\* Two consecutive runs without force_redownload, the first of which returned.
TwoUnforcedRuns == prev.valid /\ prev.kind = "done" /\ ~prev.force /\ ~force

\* C4 as stated: two consecutive runs with force_redownload = false (both
\* returning, from any mods directory, the remote unchanged) perform exactly
\* one body download in total.
C4_ExactlyOneDownload ==
  (TwoUnforcedRuns /\ pc = "done") => prev.gets + gets = 1

\* C4 as amended: of two consecutive runs with force_redownload = false and an
\* unchanged remote, the first of which returned, the first performs one body
\* download if it found the local file missing or with another MD5 and none
\* otherwise, and the second performs none.
C4_SecondRunDownloadsNothing ==
  TwoUnforcedRuns =>
     /\ gets = 0
     /\ pc \notin {"dl_get", "dl_stream", "dl_verify"}
     /\ prev.gets = (IF prev.need THEN 1 ELSE 0)

\* The second run returned after the first one had downloaded the body.
C4_Witness ==
  /\ TwoUnforcedRuns
  /\ pc = "done"
  /\ prev.gets = 1
  /\ gets = 0

\* C5: after a run that failed for one of the reasons the claim lists (a page
\* fetch error, missing links, a connection failure, an MD5 mismatch after the
\* download), every local file is as it was when the run began.
C5_FailedRunLeavesLocalFile ==
  (pc = "failed" /\ outcome.why \in {"http", "nofiles", "nostart", "nomirror", "md5"}) =>
     \A n \in LocalNames :
        /\ Exists(fs, n) <=> Exists(fs0, n)
        /\ Exists(fs, n) => fs[n] = fs0[n]

\* download_with_optional_md5 returned.
DownloadReturned ==
  /\ gets = 1
  /\ \/ pc \in {"unpack", "done"}
     \/ pc = "failed" /\ outcome.step = "unpack"

\* download_with_optional_md5 raised after the whole body had been received.
DownloadRaisedAfterBody ==
  pc = "failed" /\ outcome.step = "cond" /\ outcome.why \in {"rename", "md5"}

\* C6: with the whole body received, download_with_optional_md5 given an MD5
\* succeeds exactly when the body hashes to it (compared without regard to
\* case) and the destination then has that MD5; a body with another MD5 makes
\* it fail; given no MD5 it succeeds.
C6_SucceedsIffMd5Matches ==
  (DownloadReturned \/ DownloadRaisedAfterBody) =>
     LET matches == loc.md5 = None \/ Lower(Md5(Body(remote.stream))) = Lower(loc.md5)
     IN /\ DownloadReturned <=> matches
        /\ (DownloadReturned /\ loc.md5 # None) =>
              Lower(Md5(fs[loc.local_name])) = Lower(loc.md5)

StepOrder == <<"find", "newest", "parse", "mirror", "cond", "unpack">>

\* The requests a run has issued: one per page step entered, and the body's.
RequestsOf(entered, bodyGets) ==
  (IF Len(entered) < 4 THEN Len(entered) ELSE 4) + bodyGets

\* C7: the steps a run has entered are an initial part of the fixed order,
\* each at most once; every page step issues one request and the download at
\* most one; a run that returned went through all six steps; a run that failed
\* stopped in the step that failed, with no later step and no later request.
C7_FixedOrderFailFast ==
  /\ Len(steps) <= Len(StepOrder)
  /\ \A i \in 1..Len(steps) : steps[i] = StepOrder[i]
  /\ gets <= 1
  /\ gets = 1 => Len(steps) >= 5
  /\ http = RequestsOf(steps, gets)
  /\ pc = "done" => steps = StepOrder
  /\ pc = "failed" => steps # <<>> /\ steps[Len(steps)] = outcome.step

\* A run that failed on the mirror page after three successful page steps.
C7_Witness ==
  /\ pc = "failed"
  /\ outcome.step = "mirror"
  /\ steps = <<"find", "newest", "parse", "mirror">>
  /\ http = 4

NoFileEntry(page, downloads_url) ==
  \A i \in 1..Len(page.anchors) : ~IsFileLink(UrlJoin(downloads_url, page.anchors[i].href))

NoStartLink(page, filepage_url) ==
  \A i \in 1..Len(page.anchors) :
     ~Contains(UrlJoin(filepage_url, page.anchors[i].href),
               <<"/", "downloads", "/", "start", "/">>)

\* C10: when the downloads page served has no file-entry link the run fails in
\* newest_filepage, and when the file page served has no start link it fails
\* in parse_filepage_for_md5_and_start, whatever MD5 and file name the page
\* shows; either way no body is requested and the mods directory is as the
\* run found it.
C10_MissingLinksFail ==
  /\ (outcome.why = "nofiles" \/
      (Len(steps) >= 2 /\ outcome.why # "http" /\ NoFileEntry(remote.dl, loc.downloads_url)))
        => /\ pc = "failed" /\ outcome.step = "newest"
           /\ NoFileEntry(remote.dl, loc.downloads_url)
           /\ gets = 0 /\ http = 2 /\ fs = fs0
  /\ (outcome.why = "nostart" \/
      (Len(steps) >= 3 /\ outcome.why # "http" /\ NoStartLink(remote.file, loc.filepage_url)))
        => /\ pc = "failed" /\ outcome.step = "parse"
           /\ NoStartLink(remote.file, loc.filepage_url)
           /\ gets = 0 /\ http = 3 /\ fs = fs0

\* The file page shows an MD5 and a file name but no start link.
C10_Witness ==
  /\ pc = "failed"
  /\ outcome.why = "nostart"
  /\ Md5Of(remote.file.text) # None
  /\ SuggestedOf(remote.file.text) # None

(***************************************************************************)
(* Properties of the link extraction functions (SpecLinks).                *)
(***************************************************************************)
\* url is root without its trailing slashes, followed by "/downloads".
IsRootThenDownloads(url, root) ==
  \E k \in 0..Len(root) :
     /\ k = 0 \/ root[k] # "/"
     /\ \A j \in (k + 1)..Len(root) : root[j] = "/"
     /\ url = SubSeq(root, 1, k) \o <<"/", "downloads">>

\* C8: when no anchor of the mod root page satisfies the downloads-page
\* predicate, find_downloads_page returns the root URL followed by
\* "/downloads", with no doubled slash; and it leaves through the fallback
\* return only when no anchor satisfies the predicate.
C8_FallbackIffNoMatch ==
  (lkOut.op = "find") =>
     LET nomatch == \A i \in 1..Len(lkPage.anchors) :
                       ~IsDownloadsAnchor(lkPage.anchors[i], lkBase)
     IN /\ nomatch => /\ lkOut.via = "fallback"
                      /\ IsRootThenDownloads(lkOut.url, lkBase)
                      /\ ~Contains(lkOut.url, <<"/", "/">>)
        /\ lkOut.via = "fallback" => nomatch

\* The fallback taken for a root URL with trailing slashes, on a page that has
\* anchors, none of them matching.
C8_Witness ==
  /\ lkOut.op = "find"
  /\ lkOut.via = "fallback"
  /\ lkBase[Len(lkBase)] = "/"
  /\ Len(lkPage.anchors) >= 2

\* s.split("/")
RECURSIVE SplitSlash(_)
SplitSlash(s) ==
  IF NoSlash(s) THEN <<s>>
  ELSE LET i == CHOOSE i \in 1..Len(s) : s[i] = "/" /\ \A j \in 1..(i - 1) : s[j] # "/"
       IN <<SubSeq(s, 1, i - 1)>> \o SplitSlash(SubSeq(s, i + 1, Len(s)))

\* The URL has the shape .../mods/<slug>/downloads/<id>, with at most a
\* closing slash after the id.
HasEntryShape(url) ==
  LET segs == SplitSlash(url)
      n == Len(segs)
  IN \E p \in 2..n :
        /\ p + 3 <= n
        /\ segs[p] = <<"mods">>
        /\ segs[p + 1] # <<>>
        /\ segs[p + 2] = <<"downloads">>
        /\ segs[p + 3] # <<>>
        /\ p + 3 = n \/ (p + 4 = n /\ segs[n] = <<>>)

\* C9: newest_filepage returns the first anchor in document order whose
\* absolute URL has the file-entry shape and does not contain "upload", and
\* fails when there is none; the result is the same with any anchors after
\* that one removed; the matches it keeps are in document order, each once,
\* at its first occurrence.
C9_FirstMatchInDocumentOrder ==
  (lkOut.op = "newest") =>
     LET AbsUrl(i) == UrlJoin(lkBase, lkPage.anchors[i].href)
         M == {i \in 1..Len(lkPage.anchors) :
                 HasEntryShape(AbsUrl(i)) /\ ~Contains(AbsUrl(i), <<"upload">>)}
         first == CHOOSE i \in M : \A j \in M : i <= j
         FirstAt(u) == CHOOSE i \in M : AbsUrl(i) = u /\ \A j \in M : AbsUrl(j) = u => i <= j
         ord == Ordered(FileLinks(lkPage.anchors, lkBase), {})
     IN /\ lkOut.ok <=> M # {}
        /\ M # {} =>
              /\ lkOut.url = AbsUrl(first)
              /\ \A k \in first..Len(lkPage.anchors) :
                    NewestFilepage([lkPage EXCEPT !.anchors = SubSeq(@, 1, k)], lkBase).url
                      = lkOut.url
        /\ {ord[a] : a \in 1..Len(ord)} = {AbsUrl(i) : i \in M}
        /\ \A a, b \in 1..Len(ord) : a < b => ord[a] # ord[b] /\ FirstAt(ord[a]) < FirstAt(ord[b])

\* Two different file entries after an anchor that is none.
C9_Witness ==
  /\ lkOut.op = "newest"
  /\ lkOut.ok
  /\ Len(lkPage.anchors) = 3
  /\ ~HasEntryShape(UrlJoin(lkBase, lkPage.anchors[1].href))
  /\ lkOut.url = UrlJoin(lkBase, lkPage.anchors[2].href)
  /\ lkOut.url # UrlJoin(lkBase, lkPage.anchors[3].href)
  /\ HasEntryShape(UrlJoin(lkBase, lkPage.anchors[3].href))

(***************************************************************************)
(* Properties of the IWAD selector (SpecWad).                              *)
(***************************************************************************)
\* The files _pick_best_local_wad chooses from.
WadCandidates == IF Glob(wdDir) # {} THEN Glob(wdDir) ELSE RGlob(wdDir)

\* The tiers as the specification lists them, on the lower-cased file name.
TierOfName(name) ==
  LET n == Lower(name)
  IN CASE n = <<"doom2", ".wad">> -> 0
       [] n = <<"freedoom2", ".wad">> -> 1
       [] n = <<"freedoom1", ".wad">> -> 2
       [] n = <<"freedm", ".wad">> -> 3
       [] OTHER -> 9

\* C11: whenever the files of the searched directory (none of them in a
\* subdirectory) include one named doom2.wad in any letter case, the selector
\* returns a file whose lower-cased name is doom2.wad, in whatever order the
\* files are enumerated.
C11_Doom2AlwaysPicked ==
  ( /\ wdOut.done
    /\ \A e \in wdDir : e.depth = 0
    /\ \E e \in wdDir : Lower(e.name) = <<"doom2", ".wad">> )
  => (wdOut.found /\ Lower(wdOut.path.name) = <<"doom2", ".wad">>)

\* C12: the selector returns a candidate whose key (tier, length of the name)
\* is minimal among all candidates, the tier being 0 for doom2.wad, 1 for
\* freedoom2.wad, 2 for freedoom1.wad, 3 for freedm.wad and 9 for every other
\* name, taken on the lower-cased name; with no candidate it returns none.
C12_MinimalKey ==
  wdOut.done =>
    LET Key(e) == <<TierOfName(e.name), StrLen(Lower(e.name))>>
    IN /\ WadCandidates = {} => ~wdOut.found
       /\ WadCandidates # {} =>
            /\ wdOut.found
            /\ wdOut.path \in WadCandidates
            /\ \A c \in WadCandidates : KeyLeq(Key(wdOut.path), Key(c))

\* A name in mixed case is picked although the listing yielded another
\* candidate first.
C12_Witness ==
  /\ wdOut.done
  /\ wdOut.found
  /\ Len(wdOut.cands) >= 2
  /\ wdOut.cands[1] # wdOut.path
  /\ wdOut.path.name = <<"Doom2", ".wad">>

(***************************************************************************)
(* Properties of the unpacker (SpecUnpack).                                *)
(***************************************************************************)
\* The archive as it was handed over, and its members that are files.
ArchiveBefore == uzOut.before[uzPath]

FileMembers == {i \in 1..(Len(ArchiveBefore) - 1) : IsFileEntry(EntryName(ArchiveBefore[i]))}

\* The tier of an entry name by its extension: .pk3, .pk7, .wad, none.
ExtTier(name) ==
  CASE EndsWith(Lower(name), <<".pk3">>) -> 0
    [] EndsWith(Lower(name), <<".pk7">>) -> 1
    [] EndsWith(Lower(name), <<".wad">>) -> 2
    [] OTHER -> 99

PreferredMembers == {i \in FileMembers : ExtTier(EntryName(ArchiveBefore[i])) < 99}

NamedZip == Lower(Suffix(uzPath)) = <<".zip">>

\* C13: unpacking a .zip file that is a ZIP archive with at least one file
\* entry ending in .pk3, .pk7 or .wad (in any case) picks an entry of the best
\* extension tier and, within the tier, of the shortest name; it writes that
\* one entry and nothing else, and the path it returns is the path of the
\* file it wrote.
C13_PicksBestAndExtractsOnlyIt ==
  (uzOut.done /\ NamedZip /\ IsZip(ArchiveBefore) /\ PreferredMembers # {}) =>
    /\ uzOut.ok
    /\ \E i \in PreferredMembers :
         LET Key(j) == <<ExtTier(EntryName(ArchiveBefore[j])),
                         StrLen(EntryName(ArchiveBefore[j]))>>
         IN /\ \A j \in PreferredMembers : KeyLeq(Key(i), Key(j))
            /\ uzOut.path = EntryName(ArchiveBefore[i])
            /\ uzFs = WriteFile(uzOut.before, uzOut.path, <<ArchiveBefore[i]>>)

\* C14 as stated: an input that is not a ZIP archive is returned unchanged
\* with nothing written; a ZIP archive without an entry of a preferred
\* extension is returned as it is after every member was extracted.
C14_NotAZipReturnedUnchanged ==
  uzOut.done =>
    /\ ~IsZip(ArchiveBefore) =>
         (uzOut.ok /\ uzOut.path = uzPath /\ uzFs = uzOut.before)
    /\ (IsZip(ArchiveBefore) /\ PreferredMembers = {}) =>
         /\ uzOut.ok
         /\ uzOut.path = uzPath
         /\ \A i \in FileMembers : Exists(uzFs, ArcName(EntryName(ArchiveBefore[i])))

\* C14, by the file name: a path whose suffix is not .zip (in any case) is
\* returned unchanged with nothing written, whatever the file holds; a .zip
\* file that is no ZIP archive makes the call raise with nothing written; a
\* .zip archive without an entry of a preferred extension is returned as it
\* is after every file member was written into its directory, and no other
\* file of the directory changed.
C14_ByFileNameSuffix ==
  uzOut.done =>
    /\ ~NamedZip => (uzOut.ok /\ uzOut.path = uzPath /\ uzFs = uzOut.before)
    /\ (NamedZip /\ ~IsZip(ArchiveBefore)) => (~uzOut.ok /\ uzFs = uzOut.before)
    /\ (NamedZip /\ IsZip(ArchiveBefore) /\ PreferredMembers = {}) =>
         /\ uzOut.ok
         /\ uzOut.path = uzPath
         /\ \A i \in FileMembers :
              /\ Exists(uzFs, ArcName(EntryName(ArchiveBefore[i])))
              /\ \E j \in FileMembers :
                   /\ EntryName(ArchiveBefore[j]) = EntryName(ArchiveBefore[i])
                   /\ uzFs[ArcName(EntryName(ArchiveBefore[i]))] = <<ArchiveBefore[j]>>
         /\ \A q \in DOMAIN uzFs :
              \/ q \in DOMAIN uzOut.before /\ uzFs[q] = uzOut.before[q]
              \/ \E i \in FileMembers : q = ArcName(EntryName(ArchiveBefore[i]))

\* A .zip archive holding only foo.txt was unpacked over an older foo.txt.
C14_Witness ==
  /\ uzOut.done
  /\ uzOut.ok
  /\ NamedZip
  /\ ArchiveBefore = <<1, 9>>
  /\ uzOut.path = uzPath
  /\ Exists(uzOut.before, <<"foo", ".txt">>)
  /\ uzFs[<<"foo", ".txt">>] = <<1>>

(***************************************************************************)
(* The local file name of ensure_mod_payload (Spec).                       *)
(***************************************************************************)
\* The name the run is expected to use: the Filename the file page declares
\* or, without one, the decoded text after the last "/" of the mirror URL.
ExpectedName ==
  IF SuggestedOf(remote.file.text) # None
    THEN SuggestedOf(remote.file.text)
    ELSE Unquote(LastSegment(StartpageToDirectUrl(remote.start, loc.start_url).url))

PastCond ==
  \/ pc \in {"dl_get", "dl_stream", "dl_verify", "unpack", "done"}
  \/ pc = "failed" /\ outcome.step \in {"cond", "unpack"}

\* C15: once a run has resolved the mirror URL, the file it checks for
\* existence and digest and the file it downloads to have one and the same
\* name: the Filename declared by the file page if there is one, else the
\* percent-decoded last segment of the mirror URL.  Until the run unpacks,
\* the only files it changes are that file and its .part companion.
C15_OneLocalName ==
  PastCond =>
    /\ loc.local_name = ExpectedName
    /\ loc.need = Need(fs0, ExpectedName, Published, force)
    /\ pc \in {"dl_get", "dl_stream", "dl_verify", "unpack"} =>
         \A q \in DOMAIN fs \cup DOMAIN fs0 :
           (q \notin DOMAIN fs \/ q \notin DOMAIN fs0 \/ fs[q] # fs0[q])
             => q \in {ExpectedName, TmpPath(ExpectedName)}
    /\ (gets > 0 /\ pc \in {"dl_verify", "unpack"}) =>
         (Exists(fs, ExpectedName) /\ fs[ExpectedName] = Body(remote.stream))

\* A run without a declared Filename downloaded the body to the decoded
\* name of the mirror URL, over an older file of that name.
C15_Witness ==
  /\ pc = "done"
  /\ gets = 1
  /\ SuggestedOf(remote.file.text) = None
  /\ loc.local_name = <<"maximum-security", " ", "v1", ".pk3">>
  /\ Exists(fs0, loc.local_name)
  /\ fs[loc.local_name] # fs0[loc.local_name]

(***************************************************************************)
(* Properties of the setup window and of main() (SpecGui).                 *)
(***************************************************************************)
\* C16: whatever the user clicks and presses, at most one worker thread is
\* ever started for the window.
C16_AtMostOneWorker == Len(guiWorkers) <= 1

\* C17: show_preflight_and_run returns True exactly when a worker finished
\* the downloads successfully, and False when the user left before
\* Continue, while a worker was running or after a worker failed.
C17_TrueIffWorkerSucceeded == guiRet.set => (guiRet.val <=> guiRet.worked)

\* C18: in interactive mode the program closes the window only after a
\* worker succeeded and never once a worker's error was written to the log;
\* in headless mode a failure of the setup ends the process with a non-zero
\* status; in either mode the game is not launched without the setup's paths.
C18_FailureReportedWindowStays ==
  /\ guiClosedBy = "program" =>
       /\ guiLog = <<>>
       /\ \E i \in 1..Len(guiWorkers) : guiWorkers[i].st = "ok"
  /\ (guiHeadless /\ guiFailed) => (guiMain = "exit1" /\ ~guiLaunched)
  /\ guiLaunched => guiBox

(***************************************************************************)
(* Properties of the entrypoint (SpecEntry).                               *)
(***************************************************************************)
\* The condition under which the launcher is to be downloaded, on the files
\* as the entrypoint found them.
UpdateCondition ==
  \/ ~epLauncher0.exists
  \/ epVersion0.state \in {"missing", "unreadable"}
  \/ epVersion0.tag # epInfo.tag
  \/ epVersion0.tag = epInfo.tag /\ (epStatFails \/ epLauncher0.size # epInfo.size)

\* C19: when the release info was obtained, the launcher is downloaded if
\* and only if the launcher file is missing, or the version file is missing
\* or unreadable, or its tag differs from the latest tag, or the tags match
\* and the size of the launcher file differs from the asset's size or cannot
\* be read; when tag and size match, nothing is downloaded and the launcher
\* found is run as it is.
C19_DownloadIffStale ==
  (epInfo.some /\ epPc \notin {"lookup", "decide"}) =>
    /\ epNeeds <=> UpdateCondition
    /\ epPc = "download" => epNeeds
    /\ epDownloads > 0 => epNeeds
    /\ (epNeeds /\ epPc \in {"run", "exited"}) => epDownloads = 1
    /\ (~UpdateCondition /\ epPc = "exited") =>
         (epRan /\ epExit = 0 /\ epLauncher = epLauncher0 /\ epVersion = epVersion0)

\* The tags match, the sizes do not: the launcher was downloaded again and run.
C19_Witness ==
  /\ epInfo.some
  /\ epVersion0.state = "ok"
  /\ epVersion0.tag = epInfo.tag
  /\ epLauncher0.exists
  /\ epLauncher0.size # epInfo.size
  /\ ~epStatFails
  /\ epDownloads = 1
  /\ epRan

\* C20: whenever the lookup of the latest launcher fails, in any of its
\* ways, a launcher that is present is run as it is, with no download and no
\* change to the version file; without a launcher the process ends with
\* status 1 and starts nothing.
C20_LookupFailureRunsLocal ==
  (epGithub.mode \in {"no_asset", "unreachable", "list_fails"} /\ epPc = "exited") =>
    /\ epDownloads = 0
    /\ epLauncher = epLauncher0
    /\ epVersion = epVersion0
    /\ epLauncher0.exists => (epRan /\ epExit = 0)
    /\ ~epLauncher0.exists => (~epRan /\ epExit = 1)

(***************************************************************************)
(* More properties of the link extraction (SpecLinks).                     *)
(***************************************************************************)
\* The anchors of the page that satisfy the downloads-page predicate.
DownloadsMatches == {i \in 1..Len(lkPage.anchors) : IsDownloadsAnchor(lkPage.anchors[i], lkBase)}

DownloadsUrl(i) == UrlJoin(lkBase, Strip(lkPage.anchors[i].href))

\* C26: when some anchor satisfies the downloads-page predicate,
\* find_downloads_page returns the URL of a matching anchor that is of
\* minimal length among the matching URLs and, among those of that length,
\* the earliest in document order.
C26_ShortestThenEarliest ==
  (lkOut.op = "find" /\ DownloadsMatches # {}) =>
    \E i \in DownloadsMatches :
      /\ lkOut.url = DownloadsUrl(i)
      /\ \A j \in DownloadsMatches :
           \/ StrLen(DownloadsUrl(i)) < StrLen(DownloadsUrl(j))
           \/ StrLen(DownloadsUrl(i)) = StrLen(DownloadsUrl(j)) /\ i <= j

\* The URL returned is not that of the first matching anchor, and a later
\* matching URL of the same length was passed over.
C26_Witness ==
  /\ lkOut.op = "find"
  /\ DownloadsMatches # {}
  /\ \E i, j, k \in DownloadsMatches :
       /\ i < j /\ j < k
       /\ lkOut.url # DownloadsUrl(i)
       /\ lkOut.url = DownloadsUrl(j)
       /\ lkOut.url # DownloadsUrl(k)
       /\ StrLen(DownloadsUrl(k)) = StrLen(DownloadsUrl(j))

(***************************************************************************)
(* More properties of the setup window and of main() (SpecGui).            *)
(***************************************************************************)
\* C24: every worker thread writes its result slot exactly once, and before
\* it schedules the completion handler; the handler of a worker never runs
\* while the worker is running, sees either ok or an error, and runs at most
\* once; it does not run at all when the window was gone by the time the
\* worker ended.
C24_SlotWrittenOnceBeforeFinish ==
  \A i \in 1..Len(guiWorkers) :
    LET w == guiWorkers[i]
    IN /\ w.writes <= 1
       /\ (w.st \in {"ok", "err"}) <=> (w.writes = 1)
       /\ (w.fin # "none") => (w.writes = 1)
       /\ w.runs <= 1
       /\ (w.runs = 1) <=> (w.fin = "ran")
       /\ (w.runs = 1) => (w.seen \in {"ok", "err"} /\ w.seen = w.st)

\* The handler of a failed worker ran, and the thread of another worker,
\* which ended after the user had closed the window, could not schedule its.
C24_Witness ==
  /\ Len(guiWorkers) = 2
  /\ guiWorkers[1].runs = 1
  /\ guiWorkers[1].seen = "err"
  /\ guiClosedBy = "user"
  /\ guiWorkers[2].fin = "raised"
  /\ guiWorkers[2].runs = 0

\* C27: main() starts the game only after a setup that returned its paths;
\* a user who exits at the preflight window gets neither setup nor launch;
\* and when a worker failed, its error was shown and the user then closed
\* the window with no worker having succeeded, main() ends without starting
\* the game and without an error from the missing setup result.
C27_LaunchOnlyAfterSetup ==
  /\ guiLaunched => guiBox
  /\ (~guiHeadless /\ guiWorkers = <<>> /\ guiMain \in {"launch", "exit0", "exit1"})
        => (~guiLaunched /\ ~guiBox /\ guiMain = "exit0")
  /\ (~guiHeadless /\ guiLog # <<>> /\ ~guiBox /\ guiClosedBy = "user")
        => (~guiLaunched /\ guiMain # "exit1")

(***************************************************************************)
(* More properties of the entrypoint (SpecEntry).                          *)
(***************************************************************************)
\* An update was attempted in the current run and the run ended with 1.
UpdateFailed == epPc = "exited" /\ epExit = 1 /\ epDownloads > 0

\* C28: a run writes the version file only after a download that received
\* exactly the asset's declared size, and then records the tag of that asset;
\* a failed update leaves the version file as it was; so, over all runs, a
\* version file that records a tag implies that the asset of that tag was
\* once received in full.
C28_VersionOnlyAfterFullDownload ==
  /\ epVersion.state = "ok" => epVersion.tag \in epFull
  /\ epVersion # epVersion0 =>
       /\ epDownloads = 1
       /\ epInfo.some
       /\ epInfo.tag \in epFull
       /\ epVersion = [state |-> "ok", tag |-> epInfo.tag]
       /\ epLauncher = [exists |-> TRUE, size |-> epInfo.size]
  /\ UpdateFailed => epVersion = epVersion0

\* In a second run the version file went from one recorded tag to another.
C28_Witness ==
  /\ epRun = 2
  /\ epVersion0.state = "ok"
  /\ epVersion.state = "ok"
  /\ epVersion.tag # epVersion0.tag
  /\ epRan

\* C29: the launcher is started only when its file exists and never in a
\* run whose update failed; and a failed update leaves a launcher that was
\* installed before the run (file and version file present) at the launcher
\* path, unmodified.
C29_FailedUpdateKeepsLauncher ==
  /\ epRan => epLauncher.exists
  /\ UpdateFailed => ~epRan
  /\ (UpdateFailed /\ epLauncher0.exists /\ epVersion0.state = "ok")
       => epLauncher = epLauncher0


(***************************************************************************)
(* C21: ensure_iwad resolves the IWAD by strict precedence.  An existing   *)
(* --iwad path is returned whatever force_update says, with no request     *)
(* and no change of the iwads directory.  Otherwise, without force_update, *)
(* a best-scored local *.wad of the iwads directory is returned, again     *)
(* with no request.  Only otherwise the network is used: a successful call *)
(* returns a copy, in the iwads directory itself, of a best-scored WAD of  *)
(* the archive, and the call fails when the archive holds no WAD.          *)
(***************************************************************************)
BestAmong(p, cands) ==
  /\ p \in cands
  /\ \A c \in cands : KeyLeq(ScoreWadName(p), ScoreWadName(c))

HoldsNoWad(arc) == \A a \in arc : ~EndsWith(Lower(a.name), <<".wad">>)

IwadFromPrefer == iwPrefer = "exists"

IwadFromLocal == iwPrefer # "exists" /\ ~iwForce /\ WadCands(iwDir0) # {}

OneEntryPerVersion(builds) ==
  \A i, j \in 1..Len(builds) :
    (i # j /\ builds[i].version \in GameVersions) => builds[i].version # builds[j].version

GameDeployed == dpRun.script \in {"game", "register"} /\ dpRun.pc = "done" /\ dpExit = 0

Listed(builds, version) == \E i \in 1..Len(builds) : builds[i].version = version

C22_OneEntryPerVersion ==
  /\ dpManifest.state = "ok" => OneEntryPerVersion(dpManifest.builds)
  /\ GameDeployed =>
       LET old == dpManifest0.builds
           new == dpManifest.builds
       IN IF Listed(old, dpRun.version)
          THEN /\ Len(new) = Len(old)
               /\ \A i \in 1..Len(old) :
                    IF old[i].version = dpRun.version
                    THEN new[i].version = dpRun.version /\ new[i].run = dpCount
                    ELSE new[i] = old[i]
          ELSE /\ Len(new) = Len(old) + 1
               /\ new[Len(new)].version = dpRun.version
               /\ new[Len(new)].run = dpCount
               /\ \A i \in 1..Len(old) : new[i] = old[i]

C22_Witness ==
  /\ GameDeployed
  /\ dpRun.script = "game"
  /\ dpCount = 2
  /\ Len(dpManifest0.builds) = 2
  /\ dpManifest0.builds[1].version = dpRun.version
  /\ dpManifest0.builds[1].run = 1
  /\ dpManifest.builds[1].run = 2
  /\ dpManifest.builds[2] = dpManifest0.builds[2]

(***************************************************************************)
(* C23: a successful launcher deployment sets the manifest's launcher      *)
(* version to one more than the current revision, which is the launcher    *)
(* version of the manifest read as an integer, and 0 when there is no      *)
(* manifest, no launcher section or no integer version; the tag of the     *)
(* release created by the deployment is the new manifest version.          *)
(***************************************************************************)
LauncherDeployed == dpRun.script = "launcher" /\ dpRun.pc = "done" /\ dpExit = 0

RevisionOf(m) ==
  IF m.state = "ok" /\ m.launcher.kind = "obj"
  THEN CASE m.launcher.version.kind = "num" -> m.launcher.version.num
         [] m.launcher.version.kind = "str" /\ IntOfStr(m.launcher.version.str).ok ->
              IntOfStr(m.launcher.version.str).val
         [] OTHER -> 0
  ELSE 0

Publishing == dpRun.script \in {"launcher", "game"}

ComesAfter(later, earlier) ==
  \A j \in 1..Len(dpLog) :
    dpLog[j] = later => \E i \in 1..(j - 1) : dpLog[i] = earlier

InLog(what) == \E i \in 1..Len(dpLog) : dpLog[i] = what

C30_ManifestAfterUpload ==
  Publishing =>
    /\ ComesAfter("upload", "release")
    /\ ComesAfter("manifest", "upload")
    /\ ComesAfter("manifest_failed", "upload")
    /\ ComesAfter("commit", "manifest")
    /\ ComesAfter("push", "commit")
    /\ (~InLog("manifest") /\ ~InLog("manifest_failed")) => dpManifest = dpManifest0
    /\ (dpRun.pc = "done" /\ ~InLog("manifest")) => dpExit = 1
    /\ dpExit \in {-1, 0, 1}
    /\ dpWritten \subseteq dpUploaded
    /\ (dpManifest.launcher.url.run > 0) => dpManifest.launcher.url \in dpUploaded
    /\ \A i \in 1..Len(dpManifest.builds) :
         dpManifest.builds[i].url.run > 0 => dpManifest.builds[i].url \in dpUploaded

C30_Witness ==
  /\ Publishing
  /\ dpCount = 2
  /\ dpRun.pc = "done"
  /\ dpExit = 1
  /\ dpLog = <<"release">>
  /\ dpWritten # {}
  /\ dpManifest = dpManifest0

(***************************************************************************)
(* C25: when setup_all has to run the mod pipeline (no --skip-mod-update,  *)
(* or no local mod file) and every network step succeeds, the call of the  *)
(* pipeline with the progress callback is accepted, the "mod" stage gets   *)
(* its updates and ends with "Ready", and setup_all returns gzdoom_path,   *)
(* iwad_path and payload.                                                  *)
(***************************************************************************)
C25_ProgressAccepted ==
  (suPc \in {"done", "raised"} /\ ~UsesLocalMod /\ suEnv.netOk) =>
    /\ suOut.kind = "returned"
    /\ suOut.keys = {"gzdoom_path", "iwad_path", "payload"}
    /\ suUpdates # <<>>
    /\ suUpdates[Len(suUpdates)] = [stage |-> "mod", text |-> "Ready"]
====
